---- MODULE Spec2Model ----
(***************************************************************************)
(* Trajectory normalisation and token accounting of the viewer             *)
(* (src/viewer/parse_trajectory.py): the raw-transcript normaliser         *)
(* (format A, parse_claude_code_jsonl), the converted-trace normaliser     *)
(* (format B, parse_atif_trajectory), the tool classifier / summariser     *)
(* and the format dispatcher (detect_and_parse).                           *)
(*                                                                         *)
(* Strings are modelled by what the code reads of them: their length, the  *)
(* length of their first line, the length of their basename and the set of *)
(* keywords they contain.  A rendered string (summary) is a literal prefix *)
(* followed by a number of payload characters.  An optional value (None)   *)
(* is the empty sequence, a present one a one-element sequence.            *)
(***************************************************************************)
EXTENDS Integers, Sequences, FiniteSets, TLC

VARIABLES
    mode,       \* which entry point this run exercises: "A", "B", "D" or "T"
    ccFile,     \* format A: the lines of claude-code.txt
    first,      \* format A: result of the poll made when only `split` lines existed
    second,     \* format A: result of the poll resumed at after_line = split
    full,       \* format A: result of a single-shot parse (after_line = 0)
    split,      \* format A: number of lines on disk at the first poll
    doc,        \* format B: the steps of trajectory.json
    resB,       \* format B: result of parse_atif_trajectory(doc, offB)
    fullB,      \* format B: result of parse_atif_trajectory(doc, 0)
    offB,       \* format B: resume offset of the call that produced resB
    jobDir,     \* dispatcher: what the job directory holds
    resD,       \* dispatcher: outcome of detect_and_parse(jobDir, offD)
    offD,       \* dispatcher: resume offset of that call
    toolCall,   \* tool summariser: the (name, input) under inspection
    toolOut,    \* tool summariser: event_type, summary and detail computed for it
    cumulative, \* statistics: outcome of compute_cumulative_tokens on a parse result
    cost,       \* statistics: events, model and outcome of an estimate_cost call
    inflight,   \* re-entrancy: the parse calls in progress, each with its own locals
    viewer,     \* viewer: the job store, the cache and the last response
    wrapper,    \* agent wrapper: the shell running the wrapped command
    gen,        \* viewer: a generate_trajectory call, its inputs and its outcome
    tail,       \* a writer appending to the raw transcript and a poller reading it
    stream,     \* viewer: the polling loop of stream_events over a job directory
    jobMetrics, \* viewer: the job's files and the get_job_metrics cache
    client      \* GitLab client: the server, the cache and the last call

vars == <<mode, ccFile, first, second, full, split, doc, resB, fullB, offB,
          jobDir, resD, offD, toolCall, toolOut,
          cumulative, cost, inflight, viewer, wrapper,
          gen, tail, stream, jobMetrics, client>>

varsA == <<ccFile, first, second, full, split>>
varsB == <<doc, resB, fullB, offB>>
varsD == <<jobDir, resD, offD>>
varsT == <<toolCall, toolOut>>
varsX == <<cumulative, cost, inflight, viewer, wrapper>>
varsY == <<gen, tail, stream, jobMetrics, client>>

(* ------------------------------ bounds -------------------------------- *)

MaxLines == 3
MaxSteps == 2

(* ---------------------------- small helpers --------------------------- *)

Min(a, b) == IF a < b THEN a ELSE b
Max(a, b) == IF a > b THEN a ELSE b

None == <<>>
Some(v) == <<v>>
IsNone(o) == o = <<>>

\* A value that stands for "no call made yet".
NoCall == [called |-> FALSE]

\* All sequences over S of length at most n.
RECURSIVE SeqsUpTo(_, _)
SeqsUpTo(S, n) ==
    IF n = 0 THEN {<<>>}
    ELSE LET shorter == SeqsUpTo(S, n - 1)
         IN  shorter \cup {Append(q, e) : q \in {r \in shorter : Len(r) = n - 1}, e \in S}

\* The elements of s from index i (1-based) to the end.
Suffix(s, i) == SubSeq(s, i, Len(s))

(* ------------------------------ strings ------------------------------- *)

\* A string as the code reads it: len(s), len(s.split("\n")[0]),
\* len(os.path.basename(s)) and the keywords that occur in it.
Str(n, firstLine, base, kws) == [len |-> n, first |-> firstLine, base |-> base, kw |-> kws]
Txt(n) == Str(n, n, n, {})
EmptyStr == Txt(0)

\* A value of a tool input that is not a string: a non-zero number or a
\* non-empty list.
NonStr == [nonstr |-> TRUE]
IsStr(v) == v # NonStr

\* Python truthiness of a value of a tool input.
Truthy(s) == IF IsStr(s) THEN s.len > 0 ELSE TRUE

\* dict.get(key, default) on a tool input (a function from its keys).
Get(d, key, default) == IF key \in DOMAIN d THEN d[key] ELSE default

\* a or b or c or "" over dict.get(...) values (None when the key is absent).
RECURSIVE FirstTruthy(_, _)
FirstTruthy(d, keys) ==
    IF keys = <<>> THEN EmptyStr
    ELSE IF Head(keys) \in DOMAIN d /\ Truthy(d[Head(keys)]) THEN d[Head(keys)]
    ELSE FirstTruthy(d, Tail(keys))

\* A rendered f-string: the literal prefix followed by n payload characters
\* (lengths as rendered, before any redaction); masked records that the
\* string went through the secret masker.
Rendered(prefix, n) == [pre |-> prefix, len |-> n, masked |-> FALSE]
RenderedLen(r) == Len(r.pre) + r.len

(* --------------------------- data model ------------------------------- *)

\* TokenInfo (parse_trajectory.py:21-26).
TokenInfo(i, o, cr, cc) ==
    [input_tokens |-> i, output_tokens |-> o, cache_read |-> cr, cache_creation |-> cc]

ZeroTokens == TokenInfo(0, 0, 0, 0)

\* Event (parse_trajectory.py:29-40); timestamp is carried through unchanged
\* by both normalisers and is left out.
Event(step, source, event_type, tool_name, summary, detail, tokens, line_num, tool_id) ==
    [step |-> step, source |-> source, event_type |-> event_type,
     tool_name |-> tool_name, summary |-> summary, detail |-> detail,
     tokens |-> tokens, line_num |-> line_num, tool_id |-> tool_id]

\* ParseResult (parse_trajectory.py:46-52), or the call raising an exception.
ParseResult(events, total_lines, session_id, model) ==
    [called |-> TRUE, raised |-> FALSE, events |-> events, total_lines |-> total_lines,
     session_id |-> session_id, model |-> model]

Raised == [called |-> TRUE, raised |-> TRUE]

EmptyResult == ParseResult(<<>>, 0, None, None)

Returned(r) == r.called /\ ~r.raised

(* ------------------------ token estimation ---------------------------- *)

CharsPerTokenTimes2 == 7

\* _estimate_tokens_from_chars: max(1, int(char_count / 3.5)), 0 for no chars.
EstimateTokensFromChars(char_count) ==
    IF char_count <= 0 THEN 0
    ELSE Max(1, (char_count * 2) \div CharsPerTokenTimes2)

(* ------------------- tool classifier and summariser ------------------- *)

SummaryCmdCap == 120
DetailCmdThreshold == 120
DetailCmdCap == 500
PatternCap == 80
SkillArgsCap == 60
TaskPromptCap == 300

\* str.lower() on the tool names and model-name pieces the model uses.
Lower(name) ==
    CASE name = "Bash" -> "bash"
      [] name = "BASH" -> "bash"
      [] name = "Run_Shell_Command" -> "run_shell_command"
      [] name = "Read" -> "read"
      [] name = "READ_FILE" -> "read_file"
      [] name = "Write" -> "write"
      [] name = "Edit" -> "edit"
      [] name = "Glob" -> "glob"
      [] name = "Grep" -> "grep"
      [] name = "Skill" -> "skill"
      [] name = "Task" -> "task"
      [] name = "WebFetch" -> "webfetch"
      [] name = "WebSearch" -> "websearch"
      [] name = "TodoWrite" -> "todowrite"
      [] name = "TaskOutput" -> "taskoutput"
      [] name = "TaskStop" -> "taskstop"
      [] name = "Mystery" -> "mystery"
      [] name = "Claude" -> "claude"
      [] name = "Opus" -> "opus"
      [] name = "GEMINI" -> "gemini"
      [] OTHER -> name

ShellNames == {"run_shell_command", "run_command", "execute_command", "bash"}
WriteNames == {"write_file", "edit_file", "update_file", "replace_in_file"}

IsShellTool(name) == name = "Bash" \/ Lower(name) \in ShellNames

\* command = input.get("command") or input.get("cmd") or input.get("bash_command") or ""
ShellCommand(tool_input) == FirstTruthy(tool_input, <<"command", "cmd", "bash_command">>)

\* path = input.get("file_path") or input.get("path") or ""
ToolPath(tool_input) == FirstTruthy(tool_input, <<"file_path", "path">>)

\* A categoriser that tries the shell rules from the last to the first and
\* the figures rule of a written path before the paper rule.
CategorizeToolReversed(name, tool_input) ==
    LET lname == Lower(name)
        cmd == ShellCommand(tool_input)
        path == ToolPath(tool_input)
        skill == Get(tool_input, "skill", EmptyStr)
    IN  IF name = "Skill"
        THEN IF ~IsStr(skill) THEN "TypeError"
             ELSE IF "search-papers" \in skill.kw THEN "literature_review" ELSE "other"
        ELSE IF IsShellTool(name)
        THEN IF ~IsStr(cmd) THEN "TypeError"
             ELSE IF cmd.kw \cap {"semantic_scholar", "openalex", "S2_API_KEY"} # {}
                  THEN "literature_review"
             ELSE IF "matplotlib" \in cmd.kw \/ "create_figures" \in cmd.kw THEN "plotting"
             ELSE IF "compile_latex" \in cmd.kw THEN "paper_write"
             ELSE IF "pip install" \in cmd.kw \/ "uv pip install" \in cmd.kw THEN "pip_install"
             ELSE IF "python experiment" \in cmd.kw THEN "experiment"
             ELSE IF "git clone" \in cmd.kw THEN "git_clone"
             ELSE IF "submit_for_review" \in cmd.kw \/ "extract_and_generate_questions" \in cmd.kw
                  THEN "submission"
             ELSE "bash"
        ELSE IF name \in {"Read", "Glob", "Grep"}
                \/ lname \in {"read_file", "grep_search", "glob_search", "list_directory"}
        THEN "file_read"
        ELSE IF name \in {"Write", "Edit"} \/ lname \in WriteNames
        THEN IF ~IsStr(path) THEN "TypeError"
             ELSE IF "/figures/" \in path.kw THEN "plotting"
             ELSE IF path.kw \cap {".tex", ".bib", "/latex/"} # {} THEN "paper_write"
             ELSE "file_write"
        ELSE IF name = "Task" THEN "subagent"
        ELSE IF name \in {"WebFetch", "WebSearch"}
                \/ lname \in {"web_fetch", "web_search", "fetch_url", "google_search"}
        THEN "web"
        ELSE IF name \in {"TodoWrite", "TaskOutput", "TaskStop"} THEN "task_mgmt"
        ELSE "other"

\* _categorize_tool; "TypeError" stands for the exception that `in` and
\* re.search raise on a value that is not a string.
CategorizeTool(name, tool_input) ==
    LET lname == Lower(name)
        cmd == ShellCommand(tool_input)
        path == ToolPath(tool_input)
        skill == Get(tool_input, "skill", EmptyStr)
    IN  IF name = "Skill"
        THEN IF ~IsStr(skill) THEN "TypeError"
             ELSE IF "search-papers" \in skill.kw THEN "literature_review" ELSE "other"
        ELSE IF IsShellTool(name)
        THEN IF ~IsStr(cmd) THEN "TypeError"
             ELSE IF "submit_for_review" \in cmd.kw \/ "extract_and_generate_questions" \in cmd.kw
                  THEN "submission"
             ELSE IF "git clone" \in cmd.kw THEN "git_clone"
             ELSE IF "python experiment" \in cmd.kw THEN "experiment"
             ELSE IF "pip install" \in cmd.kw \/ "uv pip install" \in cmd.kw THEN "pip_install"
             ELSE IF "compile_latex" \in cmd.kw THEN "paper_write"
             ELSE IF "matplotlib" \in cmd.kw \/ "create_figures" \in cmd.kw THEN "plotting"
             ELSE IF cmd.kw \cap {"semantic_scholar", "openalex", "S2_API_KEY"} # {}
                  THEN "literature_review"
             ELSE "bash"
        ELSE IF name \in {"Read", "Glob", "Grep"}
                \/ lname \in {"read_file", "grep_search", "glob_search", "list_directory"}
        THEN "file_read"
        ELSE IF name \in {"Write", "Edit"} \/ lname \in WriteNames
        THEN IF ~IsStr(path) THEN "TypeError"
             ELSE IF path.kw \cap {".tex", ".bib", "/latex/"} # {} THEN "paper_write"
             ELSE IF "/figures/" \in path.kw THEN "plotting"
             ELSE "file_write"
        ELSE IF name = "Task" THEN "subagent"
        ELSE IF name \in {"WebFetch", "WebSearch"}
                \/ lname \in {"web_fetch", "web_search", "fetch_url", "google_search"}
        THEN "web"
        ELSE IF name \in {"TodoWrite", "TaskOutput", "TaskStop"} THEN "task_mgmt"
        ELSE "other"

\* os.path.basename(path) if path else "?"
ShortPathLen(path) == IF Truthy(path) THEN path.base ELSE 1

\* The shell branch of _summarize_tool: the description when there is one,
\* else the first line of the command cut to 120 characters.
SummarizeShell(tool_input) ==
    LET desc == Get(tool_input, "description", EmptyStr)
        cmd == ShellCommand(tool_input)
    IN  IF Truthy(desc) THEN Rendered("Bash: ", desc.len)
        ELSE Rendered("Bash: ", Min(cmd.first, SummaryCmdCap))

\* _summarize_tool
SummarizeTool(name, tool_input, event_type) ==
    LET lname == Lower(name)
        path == ToolPath(tool_input)
    IN  IF IsShellTool(name) THEN SummarizeShell(tool_input)
        ELSE IF name = "Read" \/ lname = "read_file"
             THEN Rendered("Read: ", ShortPathLen(path))
        ELSE IF name = "Write" \/ lname = "write_file"
             THEN Rendered("Write: ", ShortPathLen(path))
        ELSE IF name = "Edit" \/ lname \in {"edit_file", "update_file", "replace_in_file"}
             THEN Rendered("Edit: ", ShortPathLen(path))
        ELSE IF name = "Glob" \/ lname = "glob_search"
             THEN Rendered("Glob: ", Get(tool_input, "pattern", EmptyStr).len)
        ELSE IF name = "Grep" \/ lname = "grep_search"
             THEN Rendered("Grep: ", Min(Get(tool_input, "pattern", EmptyStr).len, PatternCap))
        ELSE IF name = "WebFetch" \/ lname \in {"web_fetch", "fetch_url"}
             THEN Rendered("WebFetch: ", Min(Get(tool_input, "url", EmptyStr).len, PatternCap))
        ELSE IF name = "WebSearch" \/ lname \in {"web_search", "google_search"}
             THEN Rendered("WebSearch: ",
                           Min(FirstTruthy(tool_input, <<"query", "search_term">>).len, PatternCap))
        ELSE IF name = "Skill"
             THEN Rendered("Skill: ", Get(tool_input, "skill", EmptyStr).len + 1
                                      + Min(Get(tool_input, "args", EmptyStr).len, SkillArgsCap))
        ELSE IF name = "Task"
             THEN Rendered("Subagent: ", Get(tool_input, "description", EmptyStr).len)
        ELSE IF name = "TodoWrite" THEN Rendered("TodoWrite", 0)
        ELSE IF name = "TaskOutput"
             THEN Rendered("TaskOutput: ", Get(tool_input, "task_id", EmptyStr).len)
        ELSE Rendered(name, 0)

\* _get_detail
GetDetail(name, tool_input) ==
    LET lname == Lower(name)
        cmd == ShellCommand(tool_input)
        prompt == Get(tool_input, "prompt", EmptyStr)
    IN  IF IsShellTool(name)
        THEN IF cmd.len > DetailCmdThreshold
             THEN Some(Rendered("", Min(cmd.len, DetailCmdCap))) ELSE None
        ELSE IF name \in {"Write", "Edit"} \/ lname \in WriteNames
        THEN Some(Rendered("", ToolPath(tool_input).len))
        ELSE IF name = "Task"
        THEN IF Truthy(prompt) THEN Some(Rendered("", Min(prompt.len, TaskPromptCap))) ELSE None
        ELSE None

(* ------------------- format A: the raw transcript --------------------- *)

ThinkingPreviewCap == 100
ThinkingDetailCap == 500
TextSummaryCap == 150
ResultPreviewCap == 200
ResultDetailCap == 1000

\* A content fragment of a message.  chars is len(text) of a thinking or
\* text fragment, len(json.dumps(input)) of a tool_use fragment and
\* len(str(content)) of a tool_result fragment; id is the tool call's id
\* (tool_use) or the tool_use_id it answers (tool_result).
Block(type, chars, name, id, input, is_error) ==
    [type |-> type, chars |-> chars, name |-> name, id |-> id, input |-> input,
     is_error |-> is_error]

NoInput == [k \in {} |-> EmptyStr]

ThinkingBlock(n) == Block("thinking", n, "", "", NoInput, FALSE)
TextBlock(n) == Block("text", n, "", "", NoInput, FALSE)
ToolUseBlock(name, id, input, n) == Block("tool_use", n, name, id, input, FALSE)
ToolResultBlock(id, n, err) == Block("tool_result", n, "", id, NoInput, err)
UnknownBlock == Block("redacted_thinking", 0, "", "", NoInput, FALSE)

\* One physical line of the transcript.  kind is what json.loads and the
\* "type" field make of it:
\*   "blank"      an empty line
\*   "badjson"    json.loads raises JSONDecodeError
\*   "scalar"     valid JSON that is not an object (a number, a list, null)
\*   "init"       {"type": "system", "subtype": "init", ...}
\*   "assistant"  {"type": "assistant", "message": {...}}
\*   "user"       {"type": "user", "message": {...}}
\*   "other"      an object of any other type
\* strContent: message.content is a non-empty plain string, not a list.
Line(kind, id, usage, content, strContent, stdout, session, model) ==
    [kind |-> kind, id |-> id, usage |-> usage, content |-> content,
     strContent |-> strContent, stdout |-> stdout, session |-> session, model |-> model]

PlainLine(kind) == Line(kind, "", ZeroTokens, <<>>, FALSE, 0, "", "")
InitLine(session, model) == Line("init", "", ZeroTokens, <<>>, FALSE, 0, session, model)
AssistantLine(id, usage, content) == Line("assistant", id, usage, content, FALSE, 0, "", "")
UserLine(content, stdout) == Line("user", "", ZeroTokens, content, FALSE, stdout, "", "")
StrContentLine(kind, id, usage) == Line(kind, id, usage, <<>>, TRUE, 0, "", "")

\* _extract_tokens: the usage block read key by key (a missing block or
\* key is 0); the model's usage record already has the four counters.
ExtractTokens(usage) ==
    TokenInfo(usage.input_tokens, usage.output_tokens, usage.cache_read, usage.cache_creation)

\* The characters _estimate_output_tokens_from_content counts for one block.
BlockChars(b) ==
    CASE b.type \in {"thinking", "text"} -> b.chars
      [] b.type = "tool_use" -> Len(b.name) + b.chars
      [] OTHER -> 0

RECURSIVE SumBlockChars(_)
SumBlockChars(blocks) ==
    IF blocks = <<>> THEN 0 ELSE BlockChars(Head(blocks)) + SumBlockChars(Tail(blocks))

\* _estimate_output_tokens_from_content
EstimateOutputTokensFromContent(blocks) == EstimateTokensFromChars(SumBlockChars(blocks))

\* The Event of one assistant fragment, or None for a fragment type the
\* loop has no branch for.
AssistantEvent(b, step, line_num, tokens) ==
    CASE b.type = "thinking" ->
            Some(Event(step, "agent", "thinking", None,
                       Rendered("Thinking: ", Min(b.chars, ThinkingPreviewCap) + 3),
                       IF b.chars > ThinkingPreviewCap
                       THEN Some(Rendered("", Min(b.chars, ThinkingDetailCap))) ELSE None,
                       tokens, line_num, None))
      [] b.type = "text" ->
            Some(Event(step, "agent", "text", None,
                       Rendered("", Min(b.chars, TextSummaryCap)),
                       IF b.chars > TextSummaryCap THEN Some(Rendered("", b.chars)) ELSE None,
                       tokens, line_num, None))
      [] b.type = "tool_use" ->
            Some(Event(step, "agent", CategorizeTool(b.name, b.input), Some(b.name),
                       SummarizeTool(b.name, b.input, CategorizeTool(b.name, b.input)),
                       GetDetail(b.name, b.input),
                       tokens, line_num, Some(b.id)))
      [] OTHER -> None

\* The Event of one fragment of a user line, or None.  A text fragment
\* of zero characters stands for one whose text.strip() is empty.
UserEvent(b, step, line_num, stdout) ==
    CASE b.type = "tool_result" ->
            LET preview == IF b.chars > 0 THEN Min(b.chars, ResultPreviewCap) ELSE 7
                summary == IF b.is_error THEN Rendered("Error: ", preview)
                           ELSE IF stdout > 0
                                THEN Rendered("Result: ", Min(stdout, ResultPreviewCap))
                                ELSE Rendered("Result: ", preview)
            IN  Some(Event(step, "tool_result", "tool_result", None, summary,
                           IF b.chars > ResultPreviewCap
                           THEN Some(Rendered("", Min(b.chars, ResultDetailCap))) ELSE None,
                           None, line_num, Some(b.id)))
      [] b.type = "text" /\ b.chars > 0 ->
            Some(Event(step, "user", "user_message", None,
                       Rendered("", Min(b.chars, TextSummaryCap)),
                       IF b.chars > TextSummaryCap THEN Some(Rendered("", b.chars)) ELSE None,
                       None, line_num, None))
      [] OTHER -> None

\* msg_tokens_once over the fragments of one assistant line: the loop
\* "for block in content_blocks" from fragment i on.  acc holds the events
\* emitted so far and whether the token info was handed out.
RECURSIVE EmitAssistant(_, _, _, _, _)
EmitAssistant(blocks, i, acc, token_info, line_num) ==
    IF i > Len(blocks) THEN acc
    ELSE LET hand == IF IsNone(token_info) \/ acc.token_attached THEN None ELSE token_info
             ev == AssistantEvent(blocks[i], acc.step, line_num, hand)
         IN  IF IsNone(ev) THEN EmitAssistant(blocks, i + 1, acc, token_info, line_num)
             ELSE EmitAssistant(blocks, i + 1,
                                [events |-> Append(acc.events, ev[1]),
                                 step |-> acc.step + 1,
                                 token_attached |-> acc.token_attached \/ ~IsNone(hand)],
                                token_info, line_num)

RECURSIVE EmitUser(_, _, _, _, _)
EmitUser(blocks, i, acc, stdout, line_num) ==
    IF i > Len(blocks) THEN acc
    ELSE LET ev == UserEvent(blocks[i], acc.step, line_num, stdout)
         IN  IF IsNone(ev) THEN EmitUser(blocks, i + 1, acc, stdout, line_num)
             ELSE EmitUser(blocks, i + 1,
                           [acc EXCEPT !.events = Append(@, ev[1]), !.step = @ + 1],
                           stdout, line_num)

\* mask_secrets_in_text: the string handed to sanitize_text.
MaskSecretsInText(r) == [r EXCEPT !.masked = TRUE]

\* A masker that leaves the details alone.
MaskSummariesOnly(events) ==
    [i \in 1..Len(events) |-> [events[i] EXCEPT !.summary = MaskSecretsInText(@)]]

\* _mask_events: every summary, and every non-empty detail, is masked.
MaskEvents(events) ==
    [i \in 1..Len(events) |->
        [events[i] EXCEPT
            !.summary = MaskSecretsInText(@),
            !.detail = IF IsNone(@) \/ @[1].len = 0 THEN @
                       ELSE Some(MaskSecretsInText(@[1]))]]

\* A step counter that restarts at 0 on every call.
InitialStepZero(after_line) == 0

\* step = after_line: the step counter of a call starts at its offset.
InitialStep(after_line) == after_line

\* The token info of one assistant line (None when its message id was
\* seen before in this call): the reported usage, its output count
\* replaced by the estimate over the blocks accumulated for the id so far
\* when that is larger.  An id-less line keeps the reported count.
LineTokenInfo(line, seen_msg_ids, msg_content_blocks) ==
    IF line.id # "" /\ line.id \in seen_msg_ids THEN None
    ELSE LET t == ExtractTokens(line.usage)
             estimated == IF line.id # ""
                          THEN EstimateOutputTokensFromContent(msg_content_blocks[line.id])
                          ELSE 0
         IN  Some(IF line.id # "" /\ estimated > t.output_tokens
                  THEN [t EXCEPT !.output_tokens = estimated] ELSE t)

\* One iteration of the line loop on a line at or after the offset.
\* st is the call's local state; raised: an exception left the loop.
ProcessLine(st, line, line_num) ==
    CASE line.kind \in {"blank", "badjson", "other"} -> st
      [] line.kind = "scalar" -> [st EXCEPT !.raised = TRUE]
      [] line.kind = "init" ->
            [st EXCEPT
                !.session_id = Some(line.session),
                !.model = Some(line.model),
                !.events = Append(@, Event(st.step, "system", "system", None,
                                           Rendered("Session started - model=", Len(line.model)),
                                           None, None, line_num, None)),
                !.step = @ + 1]
      [] line.kind = "assistant" ->
            IF line.strContent THEN [st EXCEPT !.raised = TRUE]
            ELSE LET blocks == IF line.id = "" THEN st.msg_content_blocks
                               ELSE [m \in DOMAIN st.msg_content_blocks \cup {line.id} |->
                                       IF m = line.id
                                       THEN (IF m \in DOMAIN st.msg_content_blocks
                                             THEN st.msg_content_blocks[m] ELSE <<>>)
                                            \o line.content
                                       ELSE st.msg_content_blocks[m]]
                     token_info == LineTokenInfo(line, st.seen_msg_ids, blocks)
                     out == EmitAssistant(line.content, 1,
                                          [events |-> st.events, step |-> st.step,
                                           token_attached |-> FALSE],
                                          token_info, line_num)
                 IN  [st EXCEPT
                        !.msg_content_blocks = blocks,
                        !.seen_msg_ids = IF line.id = "" THEN @ ELSE @ \cup {line.id},
                        !.events = out.events,
                        !.step = out.step]
      [] line.kind = "user" ->
            IF line.strContent THEN [st EXCEPT !.raised = TRUE]
            ELSE LET out == EmitUser(line.content, 1,
                                     [events |-> st.events, step |-> st.step],
                                     line.stdout, line_num)
                 IN  [st EXCEPT !.events = out.events, !.step = out.step]

\* for line_num, raw_line in enumerate(f), from line i (1-based) on.
RECURSIVE ParseLoop(_, _, _)
ParseLoop(lines, i, st) ==
    IF st.raised \/ i > Len(lines) THEN st
    ELSE ParseLoop(lines, i + 1, ProcessLine(st, lines[i], i - 1))

\* A file on disk: missing, present but not openable, or its lines.
MissingFile == [exists |-> FALSE, readable |-> FALSE, lines |-> <<>>]
UnreadableFile == [exists |-> TRUE, readable |-> FALSE, lines |-> <<>>]
RegularFile(lines) == [exists |-> TRUE, readable |-> TRUE, lines |-> lines]

\* parse_claude_code_jsonl(path, after_line)
ParseClaudeCodeJsonl(f, after_line) ==
    IF ~f.exists THEN EmptyResult
    ELSE IF ~f.readable THEN Raised
    ELSE LET st == ParseLoop(f.lines, after_line + 1,
                             [events |-> <<>>, step |-> InitialStep(after_line),
                              seen_msg_ids |-> {},
                              msg_content_blocks |-> [m \in {} |-> <<>>],
                              session_id |-> None, model |-> None, raised |-> FALSE])
         IN  IF st.raised THEN Raised
             ELSE ParseResult(MaskEvents(st.events), Len(f.lines), st.session_id, st.model)

(* ------------------- format B: the converted trace -------------------- *)

ReasoningDetailCap == 1000

\* A step's message or reasoning_content as the code reads it: kind is
\*   "absent"    missing, null or the empty string
\*   "blank"     whitespace only: counted as characters, empty once stripped
\*   "text"      ordinary text
\*   "executed"  (message) text that starts with "Executed "
\*   "nullword"  (reasoning) the word "null" or "none" in any case
\* chars is len() of the raw string.
Content(kind, chars) == [kind |-> kind, chars |-> chars]
Absent == Content("absent", 0)

\* .strip() leaves something
Stripped(c) == c.kind \notin {"absent", "blank"}

\* A tool call of a step; arg_chars is len(json.dumps(arguments)).
ToolCall(function_name, tool_call_id, arguments, arg_chars) ==
    [function_name |-> function_name, tool_call_id |-> tool_call_id,
     arguments |-> arguments, arg_chars |-> arg_chars]

\* An observation result; chars is len() of its stringified content.
ObsResult(source_call_id, chars) == [source_call_id |-> source_call_id, chars |-> chars]

\* The metrics block.  input_tokens is optional (None when the key is
\* missing); the other counters read as 0 when missing.  cache_creation
\* is the scalar extra.cache_creation_input_tokens or, when nested holds,
\* the record of its two ephemeral sub-buckets.
Metrics(prompt, completion, cached, input, output, extra_cache_read, nested, cc, cc5m, cc1h, thoughts) ==
    [prompt_tokens |-> prompt, completion_tokens |-> completion, cached_tokens |-> cached,
     input_tokens |-> input, output_tokens |-> output,
     extra_cache_read |-> extra_cache_read, nested |-> nested,
     cache_creation |-> cc, ephemeral_5m |-> cc5m, ephemeral_1h |-> cc1h,
     thoughts_tokens |-> thoughts]

Step(source, message, reasoning, tool_calls, results, metrics, is_error) ==
    [source |-> source, message |-> message, reasoning |-> reasoning,
     tool_calls |-> tool_calls, results |-> results, metrics |-> metrics,
     is_error |-> is_error]

\* A mapping that takes prompt_tokens as the input count, cache reads included.
ExtractTokensNoSubtraction(m) ==
    TokenInfo(IF ~IsNone(m.input_tokens) THEN m.input_tokens[1] ELSE m.prompt_tokens,
              IF m.completion_tokens # 0 THEN m.completion_tokens ELSE m.output_tokens,
              IF m.cached_tokens # 0 THEN m.cached_tokens ELSE m.extra_cache_read,
              IF m.nested THEN m.ephemeral_5m + m.ephemeral_1h ELSE m.cache_creation)

\* _extract_tokens_from_metrics
ExtractTokensFromMetrics(m) ==
    LET cache_creation == IF m.nested THEN m.ephemeral_5m + m.ephemeral_1h
                          ELSE m.cache_creation
        cache_read == IF m.cached_tokens # 0 THEN m.cached_tokens ELSE m.extra_cache_read
        uncached_input ==
            IF ~IsNone(m.input_tokens) THEN m.input_tokens[1]
            ELSE IF cache_read # 0 /\ m.prompt_tokens >= cache_read
                 THEN m.prompt_tokens - cache_read
                 ELSE m.prompt_tokens
    IN  TokenInfo(uncached_input,
                  IF m.completion_tokens # 0 THEN m.completion_tokens ELSE m.output_tokens,
                  cache_read, cache_creation)

RECURSIVE ToolCallChars(_)
ToolCallChars(calls) ==
    IF calls = <<>> THEN 0
    ELSE Head(calls).arg_chars + Len(Head(calls).function_name) + ToolCallChars(Tail(calls))

\* token_info of a step: the mapped metrics, the output count of an agent
\* step raised to estimate(visible characters) + thoughts_tokens.
StepTokenInfo(step) ==
    LET t == ExtractTokensFromMetrics(step.metrics)
        content_chars == step.message.chars + step.reasoning.chars
                         + ToolCallChars(step.tool_calls)
        estimated == EstimateTokensFromChars(content_chars) + step.metrics.thoughts_tokens
    IN  IF step.source = "agent" /\ estimated > t.output_tokens
        THEN [t EXCEPT !.output_tokens = estimated] ELSE t

\* token_dict: None when all four counters are zero.
TokenDict(token_info) == IF token_info = ZeroTokens THEN None ELSE Some(token_info)

\* A step whose token dict is handed to every Event.
StepTokensAlways(acc, token_dict) == token_dict

\* step_tokens_once(): the token dict on its first call of a step.
StepTokensOnce(acc, token_dict) ==
    IF acc.token_attached \/ IsNone(token_dict) THEN None ELSE token_dict

\* add_event: step and line_num are the event's index in all_events.
AddEvent(acc, source, event_type, summary, detail, tool_name, tokens, tool_id) ==
    [events |-> Append(acc.events,
                       Event(Len(acc.events), source, event_type, tool_name, summary,
                             detail, tokens, Len(acc.events), tool_id)),
     token_attached |-> acc.token_attached \/ ~IsNone(tokens)]

\* summary = message[:150], detail = message if len(message) > 150 else None
MessageEvent(acc, source, event_type, message, token_dict) ==
    AddEvent(acc, source, event_type,
             Rendered("", Min(message.chars, TextSummaryCap)),
             IF message.chars > TextSummaryCap THEN Some(Rendered("", message.chars)) ELSE None,
             None, StepTokensOnce(acc, token_dict), None)

RECURSIVE AddToolCalls(_, _, _, _)
AddToolCalls(acc, calls, i, token_dict) ==
    IF i > Len(calls) THEN acc
    ELSE LET c == calls[i]
             event_type == CategorizeTool(c.function_name, c.arguments)
         IN  AddToolCalls(
                AddEvent(acc, "agent", event_type,
                         SummarizeTool(c.function_name, c.arguments, event_type),
                         GetDetail(c.function_name, c.arguments),
                         Some(c.function_name), StepTokensOnce(acc, token_dict),
                         Some(c.tool_call_id)),
                calls, i + 1, token_dict)

\* A normaliser that emits nothing for observation results.
AddResultsDropped(acc, results, i, is_error) == acc

RECURSIVE AddResults(_, _, _, _)
AddResults(acc, results, i, is_error) ==
    IF i > Len(results) THEN acc
    ELSE LET r == results[i]
             preview == IF r.chars > 0 THEN Min(r.chars, ResultPreviewCap) ELSE 7
         IN  AddResults(
                AddEvent(acc, "tool_result", "tool_result",
                         Rendered(IF is_error THEN "Error: " ELSE "Result: ", preview),
                         IF r.chars > ResultPreviewCap
                         THEN Some(Rendered("", Min(r.chars, ResultDetailCap))) ELSE None,
                         None, None, Some(r.source_call_id)),
                results, i + 1, is_error)

PlaceholderSummary == Rendered("Model turn (no visible content)", 0)

\* A normaliser without the fallback event.
NeedsPlaceholderNever(acc, token_dict) == FALSE

\* "if token_dict is not None and not token_attached": the step carried
\* token counts and no event took them.
NeedsPlaceholder(acc, token_dict) == ~IsNone(token_dict) /\ ~acc.token_attached

\* The body of "for step in steps": the events one step adds to all_events.
ProcessStep(events, step) ==
    LET token_dict == TokenDict(StepTokenInfo(step))
        acc0 == [events |-> events, token_attached |-> FALSE]
        hasMsg == Stripped(step.message)
        afterThinking ==
            IF step.reasoning.kind = "text"
            THEN AddEvent(acc0, "agent", "thinking",
                          Rendered("Thinking: ", Min(step.reasoning.chars, ThinkingPreviewCap) + 3),
                          IF step.reasoning.chars > ThinkingPreviewCap
                          THEN Some(Rendered("", Min(step.reasoning.chars, ReasoningDetailCap)))
                          ELSE None,
                          None, StepTokensOnce(acc0, token_dict), None)
            ELSE acc0
        afterText ==
            IF hasMsg /\ ~(step.tool_calls # <<>> /\ step.message.kind = "executed")
            THEN MessageEvent(afterThinking, "agent", "text", step.message, token_dict)
            ELSE afterThinking
        afterCalls == AddToolCalls(afterText, step.tool_calls, 1, token_dict)
        afterResults == AddResults(afterCalls, step.results, 1, step.is_error)
        visible ==
            CASE step.source = "agent" -> afterResults
              [] step.source = "user" ->
                    IF hasMsg THEN MessageEvent(acc0, "user", "user_message", step.message, token_dict)
                    ELSE acc0
              [] step.source = "system" ->
                    IF hasMsg THEN MessageEvent(acc0, "system", "system", step.message, token_dict)
                    ELSE acc0
              [] OTHER ->
                    IF hasMsg THEN MessageEvent(acc0, step.source, "other", step.message, token_dict)
                    ELSE acc0
        final ==
            IF NeedsPlaceholder(visible, token_dict)
            THEN AddEvent(visible,
                          IF step.source \in {"agent", "user", "system"} THEN step.source ELSE "agent",
                          IF step.source = "agent" THEN "text" ELSE "other",
                          PlaceholderSummary, None, None,
                          StepTokensOnce(visible, token_dict), None)
            ELSE visible
    IN  final.events

RECURSIVE AllEvents(_, _, _)
AllEvents(steps, i, events) ==
    IF i > Len(steps) THEN events
    ELSE AllEvents(steps, i + 1, ProcessStep(events, steps[i]))

\* The filter off by one: the event at the offset itself is dropped.
FilterAfter(events, after_line) == SelectSeq(events, LAMBDA e : e.line_num > after_line)

\* filtered = [e for e in all_events if e.line_num >= after_line]
FilterFrom(events, after_line) == SelectSeq(events, LAMBDA e : e.line_num >= after_line)

\* trajectory.json on disk: json is what json.load makes of a readable
\* file: "invalid" (JSONDecodeError), "scalar" (valid JSON, not an
\* object) or "object" (a document with the given steps).
MissingDoc == [exists |-> FALSE, readable |-> FALSE, json |-> "invalid", steps |-> <<>>]
UnreadableDoc == [exists |-> TRUE, readable |-> FALSE, json |-> "invalid", steps |-> <<>>]
InvalidDoc == [exists |-> TRUE, readable |-> TRUE, json |-> "invalid", steps |-> <<>>]
ScalarDoc == [exists |-> TRUE, readable |-> TRUE, json |-> "scalar", steps |-> <<>>]
RegularDoc(steps) == [exists |-> TRUE, readable |-> TRUE, json |-> "object", steps |-> steps]

\* parse_atif_trajectory(path, after_line); session_id, model and
\* agent_name are copied from the document head and left out.
ParseAtifTrajectory(f, after_line) ==
    IF ~f.exists THEN EmptyResult
    ELSE IF ~f.readable \/ f.json = "invalid" THEN EmptyResult
    ELSE IF f.json = "scalar" THEN Raised
    ELSE LET all_events == AllEvents(f.steps, 1, <<>>)
         IN  ParseResult(MaskEvents(FilterFrom(all_events, after_line)),
                         Len(all_events), None, None)

(* --------------------- format A: transcripts checked ------------------- *)

UsageM1 == TokenInfo(100, 1, 0, 0)
UsageM2 == TokenInfo(7, 3, 20, 5)

ShortBash == [k \in {"command"} |-> Str(30, 30, 30, {})]

\* The lines a transcript is drawn from.  Every line of message m1
\* repeats the usage block of m1, as the agent's log does when it splits
\* one response over several lines.
LineSet ==
    { InitLine("s1", "claude-opus-4-6"),
      AssistantLine("m1", UsageM1, <<ThinkingBlock(10)>>),
      AssistantLine("m1", UsageM1, <<ToolUseBlock("Bash", "t1", ShortBash, 31)>>),
      AssistantLine("m1", UsageM1, <<>>),
      AssistantLine("m1", UsageM1, <<UnknownBlock>>),
      AssistantLine("m2", UsageM2, <<ThinkingBlock(120), TextBlock(200)>>),
      AssistantLine("", UsageM2, <<TextBlock(20)>>),
      UserLine(<<ToolResultBlock("t1", 50, FALSE), TextBlock(12), TextBlock(0)>>, 0),
      PlainLine("blank"),
      PlainLine("badjson"),
      PlainLine("scalar"),
      PlainLine("other"),
      StrContentLine("user", "", ZeroTokens) }

Transcripts == SeqsUpTo(LineSet, MaxLines)

IdleA == /\ ccFile = <<>> /\ first = NoCall /\ second = NoCall /\ full = NoCall /\ split = 0
IdleB == /\ doc = <<>> /\ resB = NoCall /\ fullB = NoCall /\ offB = 0
IdleD == /\ jobDir = NoCall /\ resD = NoCall /\ offD = 0
IdleT == /\ toolCall = NoCall /\ toolOut = NoCall
IdleX == /\ cumulative = NoCall /\ cost = NoCall /\ inflight = NoCall
         /\ viewer = NoCall /\ wrapper = NoCall
IdleY == /\ gen = NoCall /\ tail = NoCall /\ stream = NoCall
         /\ jobMetrics = NoCall /\ client = NoCall

InitA ==
    /\ mode = "A"
    /\ ccFile \in Transcripts
    /\ first = NoCall /\ second = NoCall /\ full = NoCall /\ split = 0
    /\ IdleB /\ IdleD /\ IdleT /\ IdleX /\ IdleY

\* The first poll, made when the writer had written k lines.
PollFirst(k) ==
    /\ mode = "A" /\ first = NoCall
    /\ split' = k
    /\ first' = ParseClaudeCodeJsonl(RegularFile(SubSeq(ccFile, 1, k)), 0)
    /\ UNCHANGED <<mode, ccFile, second, full, varsB, varsD, varsT, varsX, varsY>>

\* The next poll, on the whole file, resumed at after_line = split.
PollResume ==
    /\ mode = "A" /\ Returned(first) /\ second = NoCall
    /\ second' = ParseClaudeCodeJsonl(RegularFile(ccFile), split)
    /\ UNCHANGED <<mode, ccFile, first, full, split, varsB, varsD, varsT, varsX, varsY>>

\* A single-shot parse of the whole file.
ParseFull ==
    /\ mode = "A" /\ full = NoCall
    /\ full' = ParseClaudeCodeJsonl(RegularFile(ccFile), 0)
    /\ UNCHANGED <<mode, ccFile, first, second, split, varsB, varsD, varsT, varsX, varsY>>

NextA ==
    \/ \E k \in 0..Len(ccFile) : PollFirst(k)
    \/ PollResume
    \/ ParseFull

SpecA == InitA /\ [][NextA]_vars

(* ----------------------- format B: traces checked ---------------------- *)

MaxOffset == 6

NoMetrics == Metrics(0, 0, 0, None, 0, 0, FALSE, 0, 0, 0, 0)
\* prompt_tokens includes the cached tokens; nested cache-creation buckets
PromptMetrics == Metrics(100, 5, 40, None, 0, 0, TRUE, 0, 3, 4, 0)
\* explicit input_tokens, output_tokens in place of completion_tokens, thoughts
GeminiMetrics == Metrics(60, 0, 0, Some(50), 2, 10, FALSE, 1, 0, 0, 9)
\* prompt_tokens smaller than the cached tokens
CacheHeavyMetrics == Metrics(10, 5, 40, None, 0, 0, FALSE, 0, 0, 0, 0)
\* the cache-read count under extra.cache_read_input_tokens
ExtraCacheMetrics == Metrics(100, 5, 0, None, 0, 30, FALSE, 0, 0, 0, 0)
\* every prompt token read from the cache
AllCachedMetrics == Metrics(40, 5, 40, None, 0, 0, FALSE, 0, 0, 0, 0)

BashCall == ToolCall("run_shell_command", "c1", ShortBash, 31)
WriteCall == ToolCall("Write", "c2", [k \in {"file_path"} |-> Str(20, 20, 8, {".tex"})], 40)

\* The steps a trace is drawn from.
StepSet ==
    { Step("agent", Content("text", 30), Content("text", 120), <<>>, <<>>, PromptMetrics, FALSE),
      Step("agent", Content("executed", 20), Absent, <<BashCall>>, <<ObsResult("c1", 250)>>,
           PromptMetrics, FALSE),
      Step("agent", Absent, Absent, <<>>, <<>>, PromptMetrics, FALSE),
      Step("agent", Absent, Absent, <<>>, <<ObsResult("c1", 0)>>, PromptMetrics, TRUE),
      Step("agent", Absent, Absent, <<>>, <<>>, NoMetrics, FALSE),
      Step("agent", Absent, Absent, <<>>, <<ObsResult("c9", 10)>>, NoMetrics, FALSE),
      Step("agent", Content("blank", 3), Absent, <<>>, <<>>, NoMetrics, FALSE),
      Step("agent", Content("text", 200), Content("nullword", 4), <<>>, <<>>, GeminiMetrics, FALSE),
      Step("agent", Absent, Absent, <<BashCall, WriteCall>>, <<>>, GeminiMetrics, FALSE),
      Step("user", Content("text", 40), Absent, <<>>, <<>>, NoMetrics, FALSE),
      Step("user", Absent, Absent, <<>>, <<>>, PromptMetrics, FALSE),
      Step("user", Absent, Absent, <<>>, <<ObsResult("c1", 10)>>, PromptMetrics, FALSE),
      Step("system", Content("text", 15), Absent, <<>>, <<>>, NoMetrics, FALSE),
      Step("tool", Absent, Absent, <<>>, <<>>, PromptMetrics, FALSE),
      Step("tool", Content("text", 5), Absent, <<>>, <<>>, NoMetrics, FALSE),
      Step("agent", Content("text", 12), Absent, <<>>, <<>>, CacheHeavyMetrics, FALSE),
      Step("agent", Content("text", 12), Absent, <<>>, <<>>, ExtraCacheMetrics, FALSE),
      Step("agent", Content("text", 12), Absent, <<>>, <<>>, AllCachedMetrics, FALSE) }

Traces == SeqsUpTo(StepSet, MaxSteps)

InitB ==
    /\ mode = "B"
    /\ doc \in Traces
    /\ resB = NoCall /\ fullB = NoCall /\ offB = 0
    /\ IdleA /\ IdleD /\ IdleT /\ IdleX /\ IdleY

\* A parse resumed at offset k.
ParseAtifFrom(k) ==
    /\ mode = "B" /\ resB = NoCall
    /\ offB' = k
    /\ resB' = ParseAtifTrajectory(RegularDoc(doc), k)
    /\ UNCHANGED <<mode, doc, fullB, varsA, varsD, varsT, varsX, varsY>>

\* A single-shot parse of the document.
ParseAtifFull ==
    /\ mode = "B" /\ fullB = NoCall
    /\ fullB' = ParseAtifTrajectory(RegularDoc(doc), 0)
    /\ UNCHANGED <<mode, doc, resB, offB, varsA, varsD, varsT, varsX, varsY>>

NextB ==
    \/ \E k \in 0..MaxOffset : ParseAtifFrom(k)
    \/ ParseAtifFull

SpecB == InitB /\ [][NextB]_vars


(* --------------------------- the dispatcher ---------------------------- *)

\* detect_and_parse(trial_dir, after_line): dir.traj is what
\* find_trajectory_path finds (a missing file: nothing found), dir.cc what
\* find_claude_code_path finds.  An exception of a parser leaves the call.
DetectAndParse(dir, after_line) ==
    LET parsed == ParseAtifTrajectory(dir.traj, after_line)
    IN  IF dir.traj.exists /\ parsed.raised THEN Raised
        ELSE IF dir.traj.exists /\ (parsed.events # <<>> \/ parsed.total_lines > 0) THEN parsed
        ELSE IF dir.cc.exists THEN ParseClaudeCodeJsonl(dir.cc, after_line)
        ELSE EmptyResult

DispatchLines ==
    { AssistantLine("m1", UsageM1, <<ThinkingBlock(120)>>),
      UserLine(<<ToolResultBlock("t1", 50, FALSE)>>, 0),
      PlainLine("badjson"),
      PlainLine("scalar") }

DispatchSteps ==
    { Step("agent", Content("text", 30), Absent, <<>>, <<>>, PromptMetrics, FALSE),
      Step("agent", Absent, Absent, <<>>, <<>>, NoMetrics, FALSE),
      Step("user", Content("text", 40), Absent, <<>>, <<>>, NoMetrics, FALSE) }

TrajFiles ==
    {MissingDoc, UnreadableDoc, InvalidDoc, ScalarDoc}
        \cup {RegularDoc(d) : d \in SeqsUpTo(DispatchSteps, MaxSteps)}

CcFiles ==
    {MissingFile, UnreadableFile}
        \cup {RegularFile(l) : l \in SeqsUpTo(DispatchLines, MaxLines - 1)}

InitD ==
    /\ mode = "D"
    /\ jobDir \in [traj : TrajFiles, cc : CcFiles]
    /\ resD = NoCall /\ offD = 0
    /\ IdleA /\ IdleB /\ IdleT /\ IdleX /\ IdleY

DetectAndParseCall(k) ==
    /\ mode = "D" /\ resD = NoCall
    /\ offD' = k
    /\ resD' = DetectAndParse(jobDir, k)
    /\ UNCHANGED <<mode, jobDir, varsA, varsB, varsT, varsX, varsY>>

NextD == \E k \in 0..1 : DetectAndParseCall(k)

SpecD == InitD /\ [][NextD]_vars

(* ------------------------ the tool summariser -------------------------- *)

\* Command texts around the two caps: one line, or a short first line
\* followed by more lines.
CommandLens == {0, 50, 119, 120, 121, 499, 500, 501, 800}

Commands ==
    {Str(n, n, n, kw) : n \in CommandLens, kw \in {{}, {"git clone"}}}
        \cup {Str(n, 10, n, {}) : n \in CommandLens \ {0}}

Descriptions == {Txt(0), Txt(40), Txt(300)}

ShellInputs ==
    {[k \in {key} |-> c] : key \in {"command", "cmd", "bash_command"}, c \in Commands}
        \cup {[k \in {"command", "description"} |-> IF k = "command" THEN c ELSE d] :
                c \in Commands, d \in Descriptions}

OtherInputs ==
    { NoInput,
      [k \in {"file_path"} |-> Str(40, 40, 9, {".tex"})],
      [k \in {"path"} |-> Str(30, 30, 7, {"/figures/"})],
      [k \in {"pattern"} |-> Txt(200)],
      [k \in {"description", "prompt"} |-> Txt(400)] }

\* Inputs with a value that is not a string.
NonStrInputs ==
    { [name |-> "Bash", input |-> [k \in {"command"} |-> NonStr]],
      [name |-> "run_shell_command", input |-> [k \in {"cmd"} |-> NonStr]],
      [name |-> "Write", input |-> [k \in {"file_path"} |-> NonStr]],
      [name |-> "Skill", input |-> [k \in {"skill"} |-> NonStr]],
      [name |-> "Mystery", input |-> [k \in {"command"} |-> NonStr]],
      [name |-> "Task", input |-> [k \in {"command"} |-> NonStr]] }

\* The texts the rules of the categoriser look for, one per rule.
RuleKeywords ==
    {"submit_for_review", "git clone", "python experiment", "pip install",
     "compile_latex", "matplotlib", "openalex"}

\* Calls whose command or path matches several rules at once, and one call
\* per tool family.
RuleOrderInputs ==
    {[name |-> "Bash", input |-> [k \in {"command"} |-> Str(60, 60, 60, kw)]] :
        kw \in SUBSET RuleKeywords}
    \cup {[name |-> n, input |-> [k \in {"file_path"} |-> Str(40, 40, 9, kw)]] :
            n \in {"Write", "Edit", "replace_in_file"},
            kw \in SUBSET {".tex", "/latex/", "/figures/"}}
    \cup {[name |-> "Skill", input |-> [k \in {"skill", "command"} |-> Str(20, 20, 20, kw)]] :
            kw \in SUBSET {"search-papers", "git clone"}}
    \cup {[name |-> n, input |-> [k \in {"command", "file_path"} |->
                                    Str(30, 30, 30, {"git clone", ".tex"})]] :
            n \in {"Glob", "list_directory", "Task", "WebFetch", "google_search",
                   "TodoWrite", "TaskStop", "Mystery"}}

ToolCalls ==
    NonStrInputs \cup RuleOrderInputs \cup
    {[name |-> n, input |-> i] :
        n \in {"Bash", "BASH", "bash", "run_shell_command"}, i \in ShellInputs}
    \cup {[name |-> n, input |-> i] :
        n \in {"Read", "Write", "edit_file", "Grep", "Task", "Mystery", ""}, i \in OtherInputs}

InitT ==
    /\ mode = "T"
    /\ toolCall \in ToolCalls
    /\ toolOut = NoCall
    /\ IdleA /\ IdleB /\ IdleD /\ IdleX /\ IdleY

\* What a normaliser computes for a tool call: its category, its
\* summary and its detail.
DescribeTool ==
    /\ mode = "T" /\ toolOut = NoCall
    /\ toolOut' =
        LET event_type == CategorizeTool(toolCall.name, toolCall.input)
        IN  IF event_type = "TypeError"
            THEN [called |-> TRUE, raised |-> TRUE]
            ELSE
            [called |-> TRUE, raised |-> FALSE,
             event_type |-> event_type,
             summary |-> SummarizeTool(toolCall.name, toolCall.input, event_type),
             detail |-> GetDetail(toolCall.name, toolCall.input)]
    /\ UNCHANGED <<mode, toolCall, varsA, varsB, varsD, varsX, varsY>>

NextT == DescribeTool

SpecT == InitT /\ [][NextT]_vars

(* ---------------------------- statistics ------------------------------ *)

\* Running totals that start again at every event.
AccumulateReset(totals, t) == t

\* total_input += ..., total_output += ..., total_cache_read += ...,
\* total_cache_creation += ...
Accumulate(totals, t) ==
    TokenInfo(totals.input_tokens + t.input_tokens,
              totals.output_tokens + t.output_tokens,
              totals.cache_read + t.cache_read,
              totals.cache_creation + t.cache_creation)

\* The entry appended for an event, given the running totals after it.
CumulativeEntry(e, totals) ==
    [step |-> e.step,
     input_tokens |-> totals.input_tokens,
     output_tokens |-> totals.output_tokens,
     cache_read |-> totals.cache_read,
     cache_creation |-> totals.cache_creation,
     total |-> totals.input_tokens + totals.output_tokens
               + totals.cache_read + totals.cache_creation]

\* "if e.tokens:": a token dict is attached (a dict with keys is truthy
\* even when every counter is 0).
HasTokens(e) == ~IsNone(e.tokens)

RECURSIVE CumulativeLoop(_, _, _, _)
CumulativeLoop(events, i, totals, out) ==
    IF i > Len(events) THEN out
    ELSE IF HasTokens(events[i])
         THEN LET t == Accumulate(totals, events[i].tokens[1])
              IN  CumulativeLoop(events, i + 1, t, Append(out, CumulativeEntry(events[i], t)))
         ELSE CumulativeLoop(events, i + 1, totals, out)

\* compute_cumulative_tokens(events)
ComputeCumulativeTokens(events) == CumulativeLoop(events, 1, ZeroTokens, <<>>)

\* compute_cumulative_tokens on the events a normaliser returned.
CumulativeTokensCall ==
    /\ mode \in {"A", "B"} /\ cumulative = NoCall
    /\ \E res \in {second, full, resB, fullB} :
          /\ Returned(res)
          /\ cumulative' = [called |-> TRUE, events |-> res.events,
                            entries |-> ComputeCumulativeTokens(res.events)]
    /\ UNCHANGED <<mode, varsA, varsB, varsD, varsT, varsY, cost, inflight, viewer, wrapper>>

(* ------------------------------ pricing ------------------------------- *)

\* A model name is the concatenation of its pieces; `none` is the Python
\* None.  Cutting every name and every table key at the same places makes
\* "key in model_norm" the search for a contiguous run of pieces.
ModelName(pieces) == [none |-> FALSE, pieces |-> pieces]
NoModel == [none |-> TRUE, pieces |-> <<>>]

\* model_norm = (model or "").lower()
ModelNorm(m) == IF m.none THEN <<>> ELSE [i \in 1..Len(m.pieces) |-> Lower(m.pieces[i])]

\* key in model_norm
Contains(hay, needle) ==
    \E start \in 1..(Len(hay) - Len(needle) + 1) :
        SubSeq(hay, start, start + Len(needle) - 1) = needle

\* len(key)
RECURSIVE KeyLen(_)
KeyLen(key) == IF key = <<>> THEN 0 ELSE Len(Head(key)) + KeyLen(Tail(key))

\* A row of the pricing table, in thousandths of a dollar per million tokens.
PriceRow(input, output, cache_read, cache_creation) ==
    [input |-> input, output |-> output, cache_read |-> cache_read,
     cache_creation |-> cache_creation]

OpusRow == PriceRow(5000, 25000, 500, 6250)
SonnetRow == PriceRow(3000, 15000, 300, 3750)
HaikuRow == PriceRow(1000, 5000, 100, 1250)
Gemini3Row == PriceRow(2000, 12000, 200, 2000)
Gemini25Row == PriceRow(1250, 10000, 125, 1250)

\* The pricing dict, in insertion order.
Pricing ==
    << [key |-> <<"claude", "-", "opus", "-", "4-6">>, row |-> OpusRow],
       [key |-> <<"claude", "-", "opus", "-", "4-5">>, row |-> OpusRow],
       [key |-> <<"claude", "-", "sonnet", "-", "4-6">>, row |-> SonnetRow],
       [key |-> <<"claude", "-", "sonnet", "-", "4-5">>, row |-> SonnetRow],
       [key |-> <<"claude", "-", "haiku", "-", "4-5">>, row |-> HaikuRow],
       [key |-> <<"gemini", "-", "3.1", "-", "pro", "-", "preview">>, row |-> Gemini3Row],
       [key |-> <<"gemini", "-", "3.1", "-", "pro">>, row |-> Gemini3Row],
       [key |-> <<"gemini", "-", "3", "-", "pro">>, row |-> Gemini3Row],
       [key |-> <<"gemini", "-", "2.5", "-", "pro">>, row |-> Gemini25Row] >>

\* pricing.get(model_norm)
ExactRow(model_norm) ==
    LET hits == {i \in 1..Len(Pricing) : Pricing[i].key = model_norm}
    IN  IF hits = {} THEN None ELSE Some(Pricing[CHOOSE i \in hits : TRUE].row)

\* for key in sorted(pricing.keys(), key=len, reverse=True): the first key
\* found in model_norm; the sort is stable, so among keys of one length
\* the earlier of the table comes first.
SubstringRow(model_norm) ==
    LET hits == {i \in 1..Len(Pricing) : Contains(model_norm, Pricing[i].key)}
        best == CHOOSE i \in hits :
                    \A j \in hits :
                        \/ KeyLen(Pricing[j].key) < KeyLen(Pricing[i].key)
                        \/ (KeyLen(Pricing[j].key) = KeyLen(Pricing[i].key) /\ i <= j)
    IN  IF hits = {} THEN None ELSE Some(Pricing[best].row)

\* A fallback that knows no family.
FamilyRowDefault(model_norm) == OpusRow

\* The family fallback and the global default.
FamilyRow(model_norm) ==
    IF Contains(model_norm, <<"gemini">>) THEN Gemini3Row
    ELSE IF Contains(model_norm, <<"sonnet">>) THEN SonnetRow
    ELSE IF Contains(model_norm, <<"haiku">>) THEN HaikuRow
    ELSE OpusRow

\* The price row estimate_cost settles on.
ResolvePrices(m) ==
    LET model_norm == ModelNorm(m)
    IN  IF ~IsNone(ExactRow(model_norm)) THEN ExactRow(model_norm)[1]
        ELSE IF ~IsNone(SubstringRow(model_norm)) THEN SubstringRow(model_norm)[1]
        ELSE FamilyRow(model_norm)

RECURSIVE TotalTokens(_, _, _)
TotalTokens(events, i, totals) ==
    IF i > Len(events) THEN totals
    ELSE TotalTokens(events, i + 1,
                     IF HasTokens(events[i]) THEN Accumulate(totals, events[i].tokens[1])
                     ELSE totals)

NanoDollarsPerCent == 10000000

\* round(cost, 2), in cents: the nearest cent.  cost is a binary float,
\* so a value that is exactly halfway in decimal lies on one side or the
\* other of the tie and either neighbour can come out.
RoundToCents(nano) ==
    LET q == nano \div NanoDollarsPerCent
        r == nano % NanoDollarsPerCent
    IN  IF 2 * r > NanoDollarsPerCent THEN {q + 1}
        ELSE IF 2 * r < NanoDollarsPerCent THEN {q}
        ELSE {q, q + 1}

\* estimate_cost(events, model); estimated_cost_usd is the set of values
\* the rounding can give.
EstimateCost(events, m) ==
    LET prices == ResolvePrices(m)
        t == TotalTokens(events, 1, ZeroTokens)
    IN  [called |-> TRUE, raised |-> FALSE,
         prices |-> prices,
         input_tokens |-> t.input_tokens,
         output_tokens |-> t.output_tokens,
         cache_read_tokens |-> t.cache_read,
         cache_creation_tokens |-> t.cache_creation,
         total_tokens |-> t.input_tokens + t.output_tokens + t.cache_read + t.cache_creation,
         estimated_cost_usd |->
             RoundToCents(t.input_tokens * prices.input + t.output_tokens * prices.output
                          + t.cache_read * prices.cache_read
                          + t.cache_creation * prices.cache_creation),
         model |-> m]

MaxEvents == 2

UsageLarge == TokenInfo(20000, 3000, 0, 10000)

\* Events as estimate_cost reads them: only .tokens matters.
CostEvent(tokens) ==
    Event(0, "agent", "text", None, Rendered("", 5), None, tokens, 0, None)

CostEventLists ==
    SeqsUpTo({CostEvent(t) : t \in {None, Some(ZeroTokens), Some(UsageM1), Some(UsageM2),
                                    Some(UsageLarge)}}, MaxEvents)

ModelNames ==
    { NoModel, ModelName(<<>>),
      ModelName(<<"claude", "-", "opus", "-", "4-6">>),
      ModelName(<<"Claude", "-", "Opus", "-", "4-6">>),
      ModelName(<<"claude", "-", "haiku", "-", "4-5">>),
      ModelName(<<"gemini", "-", "2.5", "-", "pro">>),
      ModelName(<<"gemini", "-", "3.1", "-", "pro", "-", "preview", "-", "0514">>),
      ModelName(<<"anthropic/", "claude", "-", "sonnet", "-", "4-5">>),
      ModelName(<<"gemini", "-", "2.5", "-", "pro", "/", "claude", "-", "haiku", "-", "4-5">>),
      ModelName(<<"gemini", "-", "9">>),
      ModelName(<<"GEMINI", "-", "flash">>),
      ModelName(<<"my", "-", "sonnet">>),
      ModelName(<<"haiku">>),
      ModelName(<<"gpt", "-", "4">>),
      ModelName(<<"opus">>) }

InitC ==
    /\ mode = "C"
    /\ cost \in [called : {FALSE}, events : CostEventLists, model : ModelNames]
    /\ cumulative = NoCall /\ inflight = NoCall /\ viewer = NoCall /\ wrapper = NoCall
    /\ IdleA /\ IdleB /\ IdleD /\ IdleT /\ IdleY

EstimateCostCall ==
    /\ mode = "C" /\ ~cost.called
    /\ LET out == EstimateCost(cost.events, cost.model)
       IN  \E cents \in out.estimated_cost_usd :
              cost' = [out EXCEPT !.estimated_cost_usd = cents] @@ [events |-> cost.events]
    /\ UNCHANGED <<mode, varsA, varsB, varsD, varsT, varsY, cumulative, inflight, viewer, wrapper>>

NextC == EstimateCostCall

SpecC == InitC /\ [][NextC]_vars

(* --------------------------- re-entrancy ------------------------------ *)

\* Two parse calls on one source, advanced one record at a time in any
\* interleaving.  Each call owns its locals: for parse_claude_code_jsonl
\* events, step, seen_msg_ids, msg_content_blocks, session_id and model;
\* for parse_atif_trajectory all_events (token_attached lives inside one
\* step).  pos is the 1-based index of the next record to read.

\* Locals read from the other call.
LocalsOfOther(cs, c) == cs[3 - c].st

\* The locals a call works on: its own.
LocalsOf(cs, c) == cs[c].st

\* The locals of parse_claude_code_jsonl as the call begins.
InitialLocals(after_line) ==
    [events |-> <<>>, step |-> InitialStep(after_line), seen_msg_ids |-> {},
     msg_content_blocks |-> [m \in {} |-> <<>>],
     session_id |-> None, model |-> None, raised |-> FALSE]

IdleCall == [pc |-> "idle", after_line |-> 0, pos |-> 1, st |-> InitialLocals(0), result |-> NoCall]

ReentrantLines ==
    { AssistantLine("m1", UsageM1, <<ThinkingBlock(10)>>),
      AssistantLine("m1", UsageM1, <<ToolUseBlock("Bash", "t1", ShortBash, 31)>>),
      AssistantLine("m2", UsageM2, <<TextBlock(200)>>),
      UserLine(<<ToolResultBlock("t1", 50, FALSE)>>, 0),
      PlainLine("scalar") }

ReentrantSteps ==
    { Step("agent", Content("text", 30), Content("text", 120), <<>>, <<>>, PromptMetrics, FALSE),
      Step("agent", Content("executed", 20), Absent, <<BashCall>>, <<ObsResult("c1", 250)>>,
           PromptMetrics, FALSE),
      Step("agent", Absent, Absent, <<>>, <<>>, PromptMetrics, FALSE) }

InitR ==
    /\ mode = "R"
    /\ \E kind \in {"A", "B"} :
          \E src \in (IF kind = "A" THEN SeqsUpTo(ReentrantLines, MaxLines)
                      ELSE SeqsUpTo(ReentrantSteps, MaxSteps)) :
              inflight = [kind |-> kind, src |-> src, overlap |-> FALSE,
                          cs |-> [c \in 1..2 |-> IdleCall]]
    /\ cumulative = NoCall /\ cost = NoCall /\ viewer = NoCall /\ wrapper = NoCall
    /\ IdleA /\ IdleB /\ IdleD /\ IdleT /\ IdleY

\* The call begins: its locals are created.
StartCall(c, k) ==
    /\ mode = "R" /\ inflight.cs[c].pc = "idle"
    /\ inflight' = [inflight EXCEPT
          !.cs[c] = [pc |-> "running", after_line |-> k,
                     pos |-> IF inflight.kind = "A" THEN k + 1 ELSE 1,
                     st |-> InitialLocals(k), result |-> NoCall]]
    /\ UNCHANGED <<mode, varsA, varsB, varsD, varsT, varsY, cumulative, cost, viewer, wrapper>>

\* One iteration of the call's loop over the records of the source.
StepCall(c) ==
    /\ mode = "R" /\ inflight.cs[c].pc = "running"
    /\ inflight.cs[c].pos <= Len(inflight.src) /\ ~inflight.cs[c].st.raised
    /\ LET call == inflight.cs[c]
           st == LocalsOf(inflight.cs, c)
           next == IF inflight.kind = "A"
                   THEN ProcessLine(st, inflight.src[call.pos], call.pos - 1)
                   ELSE [st EXCEPT !.events = ProcessStep(st.events, inflight.src[call.pos])]
       IN  inflight' = [inflight EXCEPT
              !.cs[c].st = next,
              !.cs[c].pos = @ + 1,
              !.overlap = @ \/ (inflight.cs[3 - c].pc = "running"
                                 /\ inflight.cs[3 - c].pos > 1)]
    /\ UNCHANGED <<mode, varsA, varsB, varsD, varsT, varsY, cumulative, cost, viewer, wrapper>>

\* The call returns, or the exception leaves it.
FinishCall(c) ==
    /\ mode = "R" /\ inflight.cs[c].pc = "running"
    /\ inflight.cs[c].pos > Len(inflight.src) \/ inflight.cs[c].st.raised
    /\ LET call == inflight.cs[c]
           st == LocalsOf(inflight.cs, c)
           result ==
               IF st.raised THEN Raised
               ELSE IF inflight.kind = "A"
               THEN ParseResult(MaskEvents(st.events), Len(inflight.src),
                                st.session_id, st.model)
               ELSE ParseResult(MaskEvents(FilterFrom(st.events, call.after_line)),
                                Len(st.events), None, None)
       IN  inflight' = [inflight EXCEPT !.cs[c].pc = "done", !.cs[c].result = result]
    /\ UNCHANGED <<mode, varsA, varsB, varsD, varsT, varsY, cumulative, cost, viewer, wrapper>>

NextR ==
    \E c \in 1..2 :
        \/ \E k \in 0..1 : StartCall(c, k)
        \/ StepCall(c)
        \/ FinishCall(c)

SpecR == InitR /\ [][NextR]_vars

(* --------------------------- the job viewer ---------------------------- *)
(* viewer/app.py: the HTTP handlers.  A job is known through a local job     *)
(* directory under JOBS_DIR, through an entry of GITLAB_JOB_MAP, or both.    *)
(* A response body is the set of its text-bearing fields; each field names   *)
(* the part of the job's files its text comes from and whether the text      *)
(* went through mask_secrets / mask_secrets_in_text on its way out.          *)

ViewerTraceLines == 2

NoResp == [sent |-> FALSE]

Field(name, from, masked) == [name |-> name, from |-> from, masked |-> masked]

Response(endpoint, status, body) ==
    [sent |-> TRUE, endpoint |-> endpoint, status |-> status, body |-> body]

NotFound(endpoint) == Response(endpoint, 404, {})

\* mask_secrets: every string of the payload is replaced by its sanitised text.
MaskSecrets(body) == { [f EXCEPT !.masked = TRUE] : f \in body }

\* _gitlab_lookup: a client is configured and the job id is in the job map.
GitlabLookup(v) == v.gitlab

\* The parts of a job's local files that hold text.
LocalParts ==
    { "trace.content", "trace.session_id", "trace.model",
      "version_log.preview", "version_log.meta", "response.md", "idea" }

\* The files GitLab may host for a job.
GitlabFiles == { "metadata", "summary", "version_log", "trajectory" }

\* discover_jobs: only local job directories are listed; a GitLab-backed one
\* with metadata is described from GitLab, any other from its local files.
DiscoverJobs(v) ==
    IF ~v.local THEN {}
    ELSE IF GitlabLookup(v) /\ "metadata" \in v.gl_files
    THEN { Field("model", "gitlab.metadata", FALSE), Field("status", "gitlab.metadata", FALSE),
           Field("task_name", "gitlab.metadata", FALSE) }
         \cup (IF "summary" \in v.gl_files
               THEN { Field("tokens", "gitlab.summary", FALSE) } ELSE {})
    ELSE IF v.local_trace
    THEN { Field("model", "trace.model", FALSE), Field("tokens", "trace.model", FALSE) }
    ELSE {}

\* load_job_events followed by the body api_events builds: the events are
\* masked, session_id and model are copied from the parse result as they are.
EventsBody(v, after) ==
    IF ~v.local_trace THEN {}
    ELSE (IF after < v.trace_lines
          THEN { Field("events", "trace.content", TRUE) } ELSE {})
         \cup { Field("session_id", "trace.session_id", FALSE),
                Field("model", "trace.model", FALSE) }

\* build_submission_records: review and rebuttal are masked one by one, the
\* version, timestamp, directory and reviewer_mode of version_log.json are not.
BuildSubmissionRecords(v) ==
    IF ~v.local_vlog THEN {}
    ELSE { Field("version", "version_log.meta", FALSE),
           Field("timestamp", "version_log.meta", FALSE),
           Field("directory", "version_log.meta", FALSE),
           Field("reviewer_mode", "version_log.meta", FALSE) }
         \cup (IF v.local_response
               THEN { Field("review", "response.md", TRUE),
                      Field("review_markdown", "response.md", TRUE),
                      Field("rebuttal", "response.md", TRUE),
                      Field("rebuttal_markdown", "response.md", TRUE) }
               ELSE { Field("review", "version_log.preview", TRUE),
                      Field("review_markdown", "version_log.preview", TRUE) })

ViewerStores ==
    [ gitlab : BOOLEAN, local : BOOLEAN, gl_files : SUBSET GitlabFiles,
      local_trace : BOOLEAN, trace_lines : {ViewerTraceLines}, local_trajectory : BOOLEAN,
      local_vlog : BOOLEAN, local_response : BOOLEAN,
      secrets : { {} } \cup { {p} : p \in LocalParts },
      cache : { <<>> }, resp : { NoResp } ]

\* A job unknown to GitLab hosts nothing there; without a local job directory
\* there are no local files.
ConsistentStore(v) ==
    /\ (~v.gitlab => v.gl_files = {})
    /\ (~v.local => ~v.local_trace /\ ~v.local_trajectory /\ ~v.local_vlog)
    /\ (v.local_trajectory => v.local_trace)
    /\ (v.local_response => v.local_vlog)

InitV ==
    /\ mode = "V"
    /\ viewer \in { v \in ViewerStores : ConsistentStore(v) }
    /\ cumulative = NoCall /\ cost = NoCall /\ inflight = NoCall /\ wrapper = NoCall
    /\ IdleA /\ IdleB /\ IdleD /\ IdleT /\ IdleY

Respond(r) ==
    /\ viewer' = [viewer EXCEPT !.resp = r]
    /\ UNCHANGED <<mode, varsA, varsB, varsD, varsT, varsY, cumulative, cost, inflight, wrapper>>

\* GET /api/jobs: the cached payload while it is fresh, else a new scan that
\* refills the cache; either way the payload is masked on the way out.
ApiJobs(fresh) ==
    /\ mode = "V"
    /\ IF viewer.cache # <<>> /\ fresh
       THEN viewer' = [viewer EXCEPT
                !.resp = Response("jobs", 200, MaskSecrets(viewer.cache[1]))]
       ELSE LET payload == DiscoverJobs(viewer)
            IN  viewer' = [viewer EXCEPT
                    !.cache = <<payload>>,
                    !.resp = Response("jobs", 200, MaskSecrets(payload))]
    /\ UNCHANGED <<mode, varsA, varsB, varsD, varsT, varsY, cumulative, cost, inflight, wrapper>>

\* GET /job/{id}: the HTML template with the job id put in.
JobDetail ==
    /\ mode = "V"
    /\ Respond(Response("detail", 200, {}))

\* GET /api/jobs/{id}/meta
ApiJobMeta ==
    /\ mode = "V"
    /\ Respond(
         IF GitlabLookup(viewer) /\ "metadata" \in viewer.gl_files
         THEN Response("meta", 200, { Field("status", "gitlab.metadata", FALSE),
                                      Field("model", "gitlab.metadata", FALSE) })
         ELSE IF ~viewer.local THEN NotFound("meta")
         ELSE Response("meta", 200,
                  MaskSecrets(IF viewer.local_trace
                              THEN { Field("model", "trace.model", FALSE) } ELSE {})))

\* GET /api/jobs/{id}/events?after=N
ApiEvents(after) ==
    /\ mode = "V"
    /\ Respond(IF ~viewer.local THEN NotFound("events")
               ELSE Response("events", 200, EventsBody(viewer, after)))

\* GET /api/jobs/{id}/tokens
ApiTokens ==
    /\ mode = "V"
    /\ Respond(
         IF GitlabLookup(viewer) /\ "summary" \in viewer.gl_files
         THEN Response("tokens", 200, { Field("cost", "gitlab.summary", FALSE) })
         ELSE IF ~viewer.local THEN NotFound("tokens")
         ELSE Response("tokens", 200,
                  MaskSecrets(IF viewer.local_trace
                              THEN { Field("cost", "trace.model", FALSE) } ELSE {})))

\* GET /api/jobs/{id}/idea: load_idea_payload masks the content it read.
ApiJobIdea ==
    /\ mode = "V"
    /\ Respond(IF ~viewer.local THEN NotFound("idea")
               ELSE Response("idea", 200, { Field("content", "idea", TRUE) }))

\* GET /api/jobs/{id}/submissions
ApiSubmissions ==
    /\ mode = "V"
    /\ Respond(
         IF GitlabLookup(viewer) /\ "version_log" \in viewer.gl_files
         THEN Response("submissions", 200,
                  { Field("version", "gitlab.version_log", FALSE),
                    Field("timestamp", "gitlab.version_log", FALSE),
                    Field("directory", "gitlab.version_log", FALSE),
                    Field("reviewer_mode", "gitlab.version_log", FALSE),
                    Field("review_markdown", "gitlab.response.md", FALSE),
                    Field("rebuttal_markdown", "gitlab.response.md", FALSE) })
         ELSE IF ~viewer.local THEN NotFound("submissions")
         ELSE Response("submissions", 200, BuildSubmissionRecords(viewer)))

\* GET /api/jobs/{id}/artifacts: names of figure and paper files.
ApiArtifacts ==
    /\ mode = "V"
    /\ Respond(
         IF GitlabLookup(viewer) /\ "metadata" \in viewer.gl_files
         THEN Response("artifacts", 200, { Field("figures", "gitlab.metadata", FALSE) })
         ELSE IF ~viewer.local THEN NotFound("artifacts")
         ELSE Response("artifacts", 200, {}))

\* GET /api/jobs/{id}/trajectory?regenerate=B; generated says whether the
\* generator left a trajectory.json behind when one was missing, readable
\* whether the file then loads as JSON.
ApiTrajectory(regenerate, generated, readable) ==
    /\ mode = "V"
    /\ Respond(
         IF GitlabLookup(viewer) /\ ~regenerate /\ "trajectory" \in viewer.gl_files
         THEN Response("trajectory", 200,
                  { Field("steps", "gitlab.trajectory", FALSE) })
         ELSE IF ~viewer.local THEN NotFound("trajectory")
         ELSE IF ~viewer.local_trace THEN NotFound("trajectory")
         ELSE IF ~(viewer.local_trajectory \/ generated) THEN NotFound("trajectory")
         ELSE IF ~readable THEN Response("trajectory", 500, {})
         ELSE Response("trajectory", 200,
                  MaskSecrets({ Field("steps", "trace.content", FALSE),
                                Field("session_id", "trace.session_id", FALSE),
                                Field("model_name", "trace.model", FALSE) })))

NextV ==
    \/ \E fresh \in BOOLEAN : ApiJobs(fresh)
    \/ JobDetail
    \/ ApiJobMeta
    \/ \E after \in 0..ViewerTraceLines : ApiEvents(after)
    \/ ApiTokens
    \/ ApiJobIdea
    \/ ApiSubmissions
    \/ ApiArtifacts
    \/ \E regenerate \in BOOLEAN, generated \in BOOLEAN, readable \in BOOLEAN :
          ApiTrajectory(regenerate, generated, readable)

SpecV == InitV /\ [][NextV]_vars

(* ------------------- the artifact-sync shell wrapper -------------------- *)
(* local_harbor_agents: the bash script _wrap_with_artifact_sync builds      *)
(* around the agent command, run as one shell process with a background      *)
(* subshell for the periodic loop.  log records what happened, in order.     *)

MaxSyncs == 2

\* Exit statuses a command can end with ($? is 0..255; 137 is a SIGKILL).
AgentStatuses == { 0, 1, 7, 137, 255 }

\* The number of sync_artifacts runs logged so far by the given runner.
RECURSIVE SyncCount(_, _)
SyncCount(log, who) ==
    IF log = <<>> THEN 0
    ELSE (IF Head(log) = who THEN 1 ELSE 0) + SyncCount(Tail(log), who)

InitW ==
    /\ mode = "W"
    /\ wrapper \in [ agent : {"claude", "gemini"}, pc : {"start"}, loop : {"none"},
                     status : AgentStatuses, AGENT_EXIT : {-1}, exit : {-1},
                     log : { <<>> } ]
    /\ cumulative = NoCall /\ cost = NoCall /\ inflight = NoCall /\ viewer = NoCall
    /\ IdleA /\ IdleB /\ IdleD /\ IdleT /\ IdleY

UnchangedW == UNCHANGED <<mode, varsA, varsB, varsD, varsT, varsY, cumulative, cost, inflight, viewer>>

\* ( while true; do sleep N; sync_artifacts; done ) &   SYNC_PID=$!
StartSyncLoop ==
    /\ mode = "W" /\ wrapper.pc = "start"
    /\ wrapper' = [wrapper EXCEPT !.pc = "agent", !.loop = "running",
                                  !.log = Append(@, "loop_start")]
    /\ UnchangedW

\* One round of the background loop: the sleep ends and sync_artifacts runs.
PeriodicSync ==
    /\ mode = "W" /\ wrapper.loop = "running" /\ wrapper.pc # "done"
    /\ SyncCount(wrapper.log, "loop_sync") < MaxSyncs
    /\ wrapper' = [wrapper EXCEPT !.log = Append(@, "loop_sync")]
    /\ UnchangedW

\* trap 'sync_artifacts' ... TERM INT: a signal caught between two commands
\* of the script runs sync_artifacts and the script goes on.
SignalTrap ==
    /\ mode = "W" /\ wrapper.pc \in {"agent", "chmod", "kill", "final_sync", "exit"}
    /\ SyncCount(wrapper.log, "trap_sync") < MaxSyncs
    /\ wrapper' = [wrapper EXCEPT !.log = Append(@, "trap_sync")]
    /\ UnchangedW

\* {base_command}: the agent command starts in the foreground.
RunAgent ==
    /\ mode = "W" /\ wrapper.pc = "agent"
    /\ wrapper' = [wrapper EXCEPT !.pc = "agent_running", !.log = Append(@, "agent_start")]
    /\ UnchangedW

\* The agent command ends; AGENT_EXIT=$?
AgentEnds ==
    /\ mode = "W" /\ wrapper.pc = "agent_running"
    /\ wrapper' = [wrapper EXCEPT
          !.pc = IF wrapper.agent = "claude" THEN "chmod" ELSE "kill",
          !.AGENT_EXIT = wrapper.status,
          !.log = Append(@, "agent_end")]
    /\ UnchangedW

\* chmod -R a+rX "$SESSIONS_DIR" 2>/dev/null || true   (Claude Code only)
FixPermissions ==
    /\ mode = "W" /\ wrapper.pc = "chmod"
    /\ wrapper' = [wrapper EXCEPT !.pc = "kill"]
    /\ UnchangedW

\* kill "$SYNC_PID" || true; wait "$SYNC_PID" || true
KillSyncLoop ==
    /\ mode = "W" /\ wrapper.pc = "kill"
    /\ wrapper' = [wrapper EXCEPT !.pc = "final_sync", !.loop = "stopped",
                                  !.log = Append(@, "loop_stop")]
    /\ UnchangedW

\* sync_artifacts
FinalSync ==
    /\ mode = "W" /\ wrapper.pc = "final_sync"
    /\ wrapper' = [wrapper EXCEPT !.pc = "exit", !.log = Append(@, "final_sync")]
    /\ UnchangedW

\* The status the script's last line hands to exit; the mutant is a bare
\* `exit`, which hands over the status of the last command, sync_artifacts.
ExitStatusOfLastCommand(w) == 0

ExitStatus(w) == w.AGENT_EXIT

\* exit "$AGENT_EXIT": the EXIT trap runs sync_artifacts once more and the
\* shell ends with the status given to exit.
Exit ==
    /\ mode = "W" /\ wrapper.pc = "exit"
    /\ wrapper' = [wrapper EXCEPT !.pc = "done", !.exit = ExitStatus(wrapper),
                                  !.log = Append(@, "exit_sync")]
    /\ UnchangedW

NextW ==
    \/ StartSyncLoop
    \/ PeriodicSync
    \/ SignalTrap
    \/ RunAgent
    \/ AgentEnds
    \/ FixPermissions
    \/ KillSyncLoop
    \/ FinalSync
    \/ Exit

SpecW == InitW /\ [][NextW]_vars

(* ------------------------- generate_trajectory -------------------------- *)
(* viewer/app.py generate_trajectory, step by step: the lookup of the agent  *)
(* directory, the freshness test, the test for the converter, the converter  *)
(* subprocess, the return.  path stands for <agent_dir>/trajectory.json.     *)

FreshSeconds == 60

\* Ages of trajectory.json in seconds: time.time() - getmtime; negative when
\* the file's mtime lies ahead of the clock.
TrajectoryAges == { -5, 0, 59, 60, 61, 3600 }

IsFreshNever(age) == FALSE

IsFresh(age) == age < FreshSeconds

InitG ==
    /\ mode = "G"
    /\ gen \in { g \in [ agent_dir : BOOLEAN, exists : BOOLEAN, age : TrajectoryAges,
                         mtime_fails : BOOLEAN, converter : BOOLEAN,
                         existed : BOOLEAN, pc : {"find_agent_dir"},
                         started : {FALSE}, result : { <<>> } ] :
                   /\ (g.exists => g.agent_dir)
                   /\ g.existed = g.exists }
    /\ tail = NoCall /\ stream = NoCall /\ jobMetrics = NoCall /\ client = NoCall
    /\ IdleA /\ IdleB /\ IdleD /\ IdleT /\ IdleX

UnchangedG == UNCHANGED <<mode, varsA, varsB, varsD, varsT, varsX,
                          tail, stream, jobMetrics, client>>

\* agent_dir = find_agent_dir(job_dir); if not agent_dir: return None
FindAgentDir ==
    /\ mode = "G" /\ gen.pc = "find_agent_dir"
    /\ gen' = IF gen.agent_dir THEN [gen EXCEPT !.pc = "check_fresh"]
              ELSE [gen EXCEPT !.pc = "done", !.result = None]
    /\ UnchangedG

\* if os.path.exists(traj_path): age < 60 returns the path; an OSError of
\* getmtime is swallowed.
CheckFresh ==
    /\ mode = "G" /\ gen.pc = "check_fresh"
    /\ gen' = IF gen.exists /\ ~gen.mtime_fails /\ IsFresh(gen.age)
              THEN [gen EXCEPT !.pc = "done", !.result = Some("path")]
              ELSE [gen EXCEPT !.pc = "check_converter"]
    /\ UnchangedG

\* if not isfile(HARBOR_PYTHON) or not isfile(GENERATE_ATIF_SCRIPT)
CheckConverter ==
    /\ mode = "G" /\ gen.pc = "check_converter"
    /\ gen' = IF ~gen.converter
              THEN [gen EXCEPT !.pc = "done",
                               !.result = IF gen.exists THEN Some("path") ELSE None]
              ELSE [gen EXCEPT !.pc = "run_converter"]
    /\ UnchangedG

\* subprocess.run([...], timeout=30): the converter writes the file, leaves
\* things as they are, or is cut off; TimeoutExpired and OSError are swallowed.
RunConverter(outcome) ==
    /\ mode = "G" /\ gen.pc = "run_converter"
    /\ gen' = [gen EXCEPT !.pc = "return", !.started = TRUE,
                          !.exists = @ \/ outcome = "written"]
    /\ UnchangedG

\* return traj_path if os.path.exists(traj_path) else None
ReturnTrajectory ==
    /\ mode = "G" /\ gen.pc = "return"
    /\ gen' = [gen EXCEPT !.pc = "done",
                          !.result = IF gen.exists THEN Some("path") ELSE None]
    /\ UnchangedG

NextG ==
    \/ FindAgentDir
    \/ CheckFresh
    \/ CheckConverter
    \/ \E outcome \in {"written", "nothing", "timeout"} : RunConverter(outcome)
    \/ ReturnTrajectory

SpecG == InitG /\ [][NextG]_vars

(* ------------- tailing a transcript that is being written -------------- *)

MaxTailLines == 3
MaxPolls == 3

\* What the writer appends: a line that yields an event, one that yields a
\* tool result, one that yields nothing.
TailLines ==
    { AssistantLine("m1", UsageM1, <<TextBlock(20)>>),
      UserLine(<<ToolResultBlock("t1", 50, FALSE)>>, 0),
      PlainLine("scalar") }

\* The bytes of a line the writer has begun and not ended: no newline yet and
\* not a JSON document (json.loads raises JSONDecodeError).
PartialLine == PlainLine("badjson")

\* The lines a reader that opens the file now iterates over: the complete
\* lines and, if the writer is inside one, its beginning as a last line.
LinesOnDisk(t) == t.lines \o (IF t.partial THEN <<PartialLine>> ELSE <<>>)

InitP ==
    /\ mode = "P"
    /\ tail = [lines |-> <<>>, partial |-> FALSE, pc |-> "sleep", last_line |-> 0,
               after_line |-> 0, events |-> <<>>, total_lines |-> 0,
               delivered |-> <<>>, polls |-> 0]
    /\ gen = NoCall /\ stream = NoCall /\ jobMetrics = NoCall /\ client = NoCall
    /\ IdleA /\ IdleB /\ IdleD /\ IdleT /\ IdleX

UnchangedP == UNCHANGED <<mode, varsA, varsB, varsD, varsT, varsX,
                          gen, stream, jobMetrics, client>>

\* The writer appends one whole line.
WriterAppends(l) ==
    /\ mode = "P" /\ ~tail.partial /\ Len(tail.lines) < MaxTailLines
    /\ tail' = [tail EXCEPT !.lines = Append(@, l)]
    /\ UnchangedP

\* The writer has flushed the beginning of a line.
WriterBeginsLine ==
    /\ mode = "P" /\ ~tail.partial /\ Len(tail.lines) < MaxTailLines
    /\ tail' = [tail EXCEPT !.partial = TRUE]
    /\ UnchangedP

\* The writer flushes the rest of the line and its newline.
WriterEndsLine(l) ==
    /\ mode = "P" /\ tail.partial
    /\ tail' = [tail EXCEPT !.lines = Append(@, l), !.partial = FALSE]
    /\ UnchangedP

\* parse_claude_code_jsonl, first pass: with open(path) ... for line_num,
\* raw_line in enumerate(f), skipping line_num < after_line.
EventPass ==
    /\ mode = "P" /\ tail.pc = "sleep" /\ tail.polls < MaxPolls
    /\ LET st == ParseLoop(LinesOnDisk(tail), tail.last_line + 1,
                           InitialLocals(tail.last_line))
       IN  tail' = [tail EXCEPT !.pc = "count", !.after_line = tail.last_line,
                                !.events = MaskEvents(st.events),
                                !.polls = @ + 1]
    /\ UnchangedP

\* parse_claude_code_jsonl, second pass: the file is opened again and
\* total_lines = sum(1 for _ in f).
LineCountPass ==
    /\ mode = "P" /\ tail.pc = "count"
    /\ tail' = [tail EXCEPT !.pc = "deliver", !.total_lines = Len(LinesOnDisk(tail))]
    /\ UnchangedP

\* event_generator: yield every event; if result.events: last_line =
\* result.total_lines; then sleep.
DeliverEvents ==
    /\ mode = "P" /\ tail.pc = "deliver"
    /\ tail' = [tail EXCEPT !.pc = "sleep",
                            !.delivered = @ \o [k \in 1..Len(tail.events) |->
                                                    tail.events[k].line_num],
                            !.last_line = IF tail.events # <<>> THEN tail.total_lines
                                          ELSE @]
    /\ UnchangedP

NextP ==
    \/ \E l \in TailLines : WriterAppends(l)
    \/ WriterBeginsLine
    \/ \E l \in TailLines : WriterEndsLine(l)
    \/ EventPass
    \/ LineCountPass
    \/ DeliverEvents

SpecP == InitP /\ [][NextP]_vars

(* ---------- the event stream across a change of the format ------------- *)

MaxTurns == 3
MaxTicks == 31
RegenerateEvery == 30

\* What the agent does in one turn, as the raw transcript records it (one
\* line) and as the converted trace records it (steps): a turn of thinking
\* and text is one line and one step of two events, a bookkeeping record is
\* one line of no event and no step.
Turns == {"think_and_say", "bookkeeping"}

TranscriptLineOf(t) ==
    IF t = "think_and_say"
    THEN AssistantLine("m1", UsageM1, <<ThinkingBlock(120), TextBlock(20)>>)
    ELSE PlainLine("other")

TraceStepsOf(t) ==
    IF t = "think_and_say"
    THEN <<Step("agent", Content("text", 20), Content("text", 120), <<>>, <<>>,
                PromptMetrics, FALSE)>>
    ELSE <<>>

RECURSIVE TraceSteps(_)
TraceSteps(turns) ==
    IF turns = <<>> THEN <<>>
    ELSE TraceStepsOf(Head(turns)) \o TraceSteps(Tail(turns))

\* The job directory: claude-code.txt holds every turn, trajectory.json the
\* turns that were there when the converter last ran (converted < 0: no file).
\* The state keeps it as dir.
StreamDir(turns, converted) ==
    [traj |-> IF converted < 0 THEN MissingDoc
              ELSE RegularDoc(TraceSteps(SubSeq(turns, 1, converted))),
     cc |-> RegularFile([k \in 1..Len(turns) |-> TranscriptLineOf(turns[k])])]

\* Whether detect_and_parse returns what parse_atif_trajectory returned.
ReturnsTrace(dir, after_line) ==
    LET parsed == ParseAtifTrajectory(dir.traj, after_line)
    IN  dir.traj.exists /\ (parsed.events # <<>> \/ parsed.total_lines > 0)

\* load_job_events: whether the result lets generate_trajectory run.
NeedsBackfill(r) == r.events = <<>> /\ r.total_lines = 0

\* Which of the job's events a result holds, as their indices in the job's
\* whole event sequence: in a trace an event's line_num is that index, in a
\* transcript of all_events events those of the lines from after_line on
\* are the last ones.
EventIndices(from_trace, all_events, events) ==
    IF from_trace THEN [k \in 1..Len(events) |-> events[k].line_num]
    ELSE [k \in 1..Len(events) |-> all_events - Len(events) + k - 1]

InitS ==
    /\ mode = "S"
    /\ stream = [turns |-> <<>>, converted |-> -1, last_line |-> 0, tick |-> 0,
                 dir |-> StreamDir(<<>>, -1),
                 delivered |-> <<>>, pc |-> "load", backfilled |-> FALSE,
                 result |-> NoCall, from_trace |-> FALSE, all_events |-> 0]
    /\ gen = NoCall /\ tail = NoCall /\ jobMetrics = NoCall /\ client = NoCall
    /\ IdleA /\ IdleB /\ IdleD /\ IdleT /\ IdleX

UnchangedS == UNCHANGED <<mode, varsA, varsB, varsD, varsT, varsX,
                          gen, tail, jobMetrics, client>>

\* The agent appends a line to claude-code.txt.
AgentTurn(t) ==
    /\ mode = "S" /\ Len(stream.turns) < MaxTurns
    /\ stream' = [stream EXCEPT !.turns = Append(@, t),
                                !.dir = StreamDir(Append(stream.turns, t), stream.converted)]
    /\ UnchangedS

\* trajectory.json is written from the transcript as it is now (by the
\* harness, or by /api/trajectory?regenerate=true of another request).
TraceWritten ==
    /\ mode = "S" /\ stream.converted # Len(stream.turns)
    /\ stream' = [stream EXCEPT !.converted = Len(stream.turns),
                                !.dir = StreamDir(stream.turns, Len(stream.turns))]
    /\ UnchangedS

\* load_job_events: detect_and_parse(job_dir, after_line=last_line), the
\* first time and again after the backfill.  from_trace and all_events
\* record which file the result came from and how many events the
\* transcript held.
StreamDetect ==
    /\ mode = "S" /\ stream.pc = "load" /\ stream.tick < MaxTicks
    /\ stream' = [stream EXCEPT
                    !.pc = "loaded",
                    !.result = DetectAndParse(stream.dir, stream.last_line),
                    !.from_trace = ReturnsTrace(stream.dir, stream.last_line),
                    !.all_events = Len(ParseClaudeCodeJsonl(stream.dir.cc, 0).events)]
    /\ UnchangedS

\* load_job_events, allow_backfill=True: a result without events and lines
\* lets generate_trajectory run once (wrote: the converter wrote the file).
StreamBackfill(wrote) ==
    /\ mode = "S" /\ stream.pc = "loaded"
    /\ NeedsBackfill(stream.result) /\ ~stream.backfilled
    /\ stream' = [stream EXCEPT
                    !.pc = "load", !.backfilled = TRUE,
                    !.converted = IF wrote THEN Len(stream.turns) ELSE @,
                    !.dir = IF wrote THEN StreamDir(stream.turns, Len(stream.turns)) ELSE @]
    /\ UnchangedS

\* event_generator: every event of the result is yielded; if result.events:
\* last_line = result.total_lines; tick += 1.
YieldEvents ==
    /\ mode = "S" /\ stream.pc = "loaded"
    /\ ~NeedsBackfill(stream.result) \/ stream.backfilled
    /\ stream' = [stream EXCEPT
                    !.delivered = @ \o EventIndices(stream.from_trace, stream.all_events,
                                                    stream.result.events),
                    !.last_line = IF stream.result.events # <<>>
                                  THEN stream.result.total_lines ELSE @,
                    !.tick = @ + 1,
                    !.backfilled = FALSE,
                    !.pc = IF (stream.tick + 1) % RegenerateEvery = 0
                           THEN "regenerate" ELSE "load"]
    /\ UnchangedS

\* if tick % 30 == 0: generate_trajectory(job_dir); then sleep.
PeriodicRegenerate(wrote) ==
    /\ mode = "S" /\ stream.pc = "regenerate"
    /\ stream' = [stream EXCEPT
                    !.pc = "load",
                    !.converted = IF wrote THEN Len(stream.turns) ELSE @,
                    !.dir = IF wrote THEN StreamDir(stream.turns, Len(stream.turns)) ELSE @]
    /\ UnchangedS

NextS ==
    \/ \E t \in Turns : AgentTurn(t)
    \/ TraceWritten
    \/ StreamDetect
    \/ \E wrote \in BOOLEAN : StreamBackfill(wrote)
    \/ YieldEvents
    \/ \E wrote \in BOOLEAN : PeriodicRegenerate(wrote)

SpecS == InitS /\ [][NextS]_vars

(* ------------------------- the metrics cache --------------------------- *)

MaxTraceWrites == 2
MaxMetricCalls == 3

\* The job directory of get_job_metrics, kept in the state as dir:
\* claude-code.txt is there once the agent has written a line,
\* trajectory.json once a converter has run.
MetricsDir(turns, trace_writes, converted) ==
    [traj |-> IF trace_writes = 0 THEN MissingDoc
              ELSE RegularDoc(TraceSteps(SubSeq(turns, 1, converted))),
     cc |-> IF turns = <<>> THEN MissingFile
            ELSE RegularFile([k \in 1..Len(turns) |-> TranscriptLineOf(turns[k])])]

\* os.stat of the two files, as far as the key sees it: every write changes
\* st_mtime_ns or st_size.
StatOf(j, file) == IF file = "trajectory.json" THEN j.trace_writes ELSE Len(j.turns)

\* find_agent_activity_path: the first of trajectory.json, claude-code.txt
\* (and the gemini transcript, which these jobs do not have) that exists.
FindAgentActivityPath(j) ==
    IF j.trace_writes > 0 THEN Some("trajectory.json")
    ELSE IF j.turns # <<>> THEN Some("claude-code.txt")
    ELSE None

\* _build_activity_cache_key: (activity_path, st_mtime_ns, st_size) or None.
BuildActivityCacheKey(j) ==
    LET activity_path == FindAgentActivityPath(j)
    IN  IF IsNone(activity_path) THEN None
        ELSE Some(<<activity_path[1], StatOf(j, activity_path[1])>>)

\* The file detect_and_parse takes its result from, with its stat.
FileParsed(j) ==
    IF ReturnsTrace(j.dir, 0) THEN Some(<<"trajectory.json", StatOf(j, "trajectory.json")>>)
    ELSE IF j.turns # <<>> THEN Some(<<"claude-code.txt", StatOf(j, "claude-code.txt")>>)
    ELSE None

InitM ==
    /\ mode = "M"
    /\ jobMetrics = [turns |-> <<>>, trace_writes |-> 0, converted |-> 0,
                     dir |-> MetricsDir(<<>>, 0, 0),
                     cache |-> None, calls |-> 0, pc |-> "idle", cache_key |-> None,
                     backfilled |-> FALSE, result |-> NoCall, parsed_from |-> None,
                     last |-> NoCall]
    /\ gen = NoCall /\ tail = NoCall /\ stream = NoCall /\ client = NoCall
    /\ IdleA /\ IdleB /\ IdleD /\ IdleT /\ IdleX

UnchangedM == UNCHANGED <<mode, varsA, varsB, varsD, varsT, varsX,
                          gen, tail, stream, client>>

\* The agent appends a line to claude-code.txt.  last is what the last call
\* returned, as long as the files are as that call left them.
TranscriptGrows(t) ==
    /\ mode = "M" /\ Len(jobMetrics.turns) < MaxTurns
    /\ jobMetrics' = [jobMetrics EXCEPT
                        !.turns = Append(@, t),
                        !.last = NoCall,
                        !.dir = MetricsDir(Append(jobMetrics.turns, t),
                                           jobMetrics.trace_writes, jobMetrics.converted)]
    /\ UnchangedM

\* trajectory.json is written from the transcript as it is now.
TraceConverted ==
    /\ mode = "M" /\ jobMetrics.trace_writes < MaxTraceWrites
    /\ jobMetrics' = [jobMetrics EXCEPT
                        !.trace_writes = @ + 1,
                        !.converted = Len(jobMetrics.turns),
                        !.last = NoCall,
                        !.dir = MetricsDir(jobMetrics.turns, jobMetrics.trace_writes + 1,
                                           Len(jobMetrics.turns))]
    /\ UnchangedM

\* get_job_metrics(job_dir, config, allow_backfill=True) begins: the key is
\* built before anything is read, and a cached entry with an equal key is
\* returned.
GetJobMetrics ==
    /\ mode = "M" /\ jobMetrics.pc = "idle" /\ jobMetrics.calls < MaxMetricCalls
    /\ LET cache_key == BuildActivityCacheKey(jobMetrics)
           cached == jobMetrics.cache
       IN  jobMetrics' =
             IF ~IsNone(cached) /\ cached[1].cache_key = cache_key
             THEN [jobMetrics EXCEPT
                     !.calls = @ + 1,
                     !.last = [called |-> TRUE, from_cache |-> TRUE,
                               data |-> cached[1].data,
                               parsed_from |-> cached[1].parsed_from]]
             ELSE [jobMetrics EXCEPT !.calls = @ + 1, !.pc = "load",
                                     !.cache_key = cache_key]
    /\ UnchangedM

\* load_job_events: detect_and_parse(job_dir, 0), the first time and again
\* after the backfill.
MetricsDetect ==
    /\ mode = "M" /\ jobMetrics.pc = "load"
    /\ jobMetrics' = [jobMetrics EXCEPT
                        !.pc = "loaded",
                        !.result = DetectAndParse(jobMetrics.dir, 0),
                        !.parsed_from = FileParsed(jobMetrics)]
    /\ UnchangedM

\* load_job_events, allow_backfill=True: a result without events and lines
\* lets generate_trajectory run once (wrote: the converter wrote the file).
MetricsBackfill(wrote) ==
    /\ mode = "M" /\ jobMetrics.pc = "loaded"
    /\ NeedsBackfill(jobMetrics.result) /\ ~jobMetrics.backfilled
    /\ jobMetrics' =
          IF wrote /\ jobMetrics.trace_writes < MaxTraceWrites
          THEN [jobMetrics EXCEPT !.pc = "load", !.backfilled = TRUE,
                                  !.trace_writes = @ + 1,
                                  !.converted = Len(jobMetrics.turns),
                                  !.dir = MetricsDir(jobMetrics.turns,
                                                     jobMetrics.trace_writes + 1,
                                                     Len(jobMetrics.turns))]
          ELSE [jobMetrics EXCEPT !.pc = "load", !.backfilled = TRUE]
    /\ UnchangedM

\* JOB_METRICS_CACHE[job_dir] = {"cache_key": cache_key, "data": data};
\* return data.  data is the parsed result the metrics are computed from.
MetricsStore ==
    /\ mode = "M" /\ jobMetrics.pc = "loaded"
    /\ ~NeedsBackfill(jobMetrics.result) \/ jobMetrics.backfilled
    /\ LET data == [events |-> jobMetrics.result.events,
                    total_lines |-> jobMetrics.result.total_lines]
       IN  jobMetrics' = [jobMetrics EXCEPT
                            !.pc = "idle", !.backfilled = FALSE,
                            !.cache = Some([cache_key |-> jobMetrics.cache_key,
                                            data |-> data,
                                            parsed_from |-> jobMetrics.parsed_from]),
                            !.last = [called |-> TRUE, from_cache |-> FALSE,
                                      data |-> data,
                                      parsed_from |-> jobMetrics.parsed_from]]
    /\ UnchangedM

NextM ==
    \/ \E t \in Turns : TranscriptGrows(t)
    \/ TraceConverted
    \/ GetJobMetrics
    \/ MetricsDetect
    \/ \E wrote \in BOOLEAN : MetricsBackfill(wrote)
    \/ MetricsStore

SpecM == InitM /\ [][NextM]_vars

(* --------------------------- the GitLab client -------------------------- *)

REPOS_TTL == 60
BRANCHES_TTL == 300
FILE_TTL == 600
TickSeconds == 60
MaxNow == 660
MaxClientCalls == 3

\* The cached methods, each called with one fixed argument list: one cache
\* key a method.
ClientMethods == {"list_repos", "list_branches", "list_tree", "get_file_json", "get_file_raw"}

TtlOf(method) ==
    CASE method = "list_repos" -> REPOS_TTL
      [] method \in {"list_branches", "list_tree"} -> BRANCHES_TTL
      [] OTHER -> FILE_TTL

\* What the server does with one request: the request fails (_api returns
\* None), or it answers with an empty body or list, or with a value.
Responses == {"failed", "empty", "value"}

\* The fetcher each method hands to _cached, applied to the response: the
\* list methods turn a failed request into [], get_file_json turns a body
\* that is not JSON into None, get_file_raw returns the body.
Fetch(method, response) ==
    CASE method \in {"list_repos", "list_branches", "list_tree"} ->
            IF response = "value" THEN Some("value") ELSE Some("empty")
      [] method = "get_file_json" ->
            IF response = "value" THEN Some("value") ELSE None
      [] OTHER ->
            IF response = "failed" THEN None ELSE Some(response)

\* CacheEntry.is_valid: time.time() < self.expires_at
IsValid(entry, now) == now < entry.expires_at

InitL ==
    /\ mode = "L"
    /\ client = [cache |-> [m \in ClientMethods |-> None],
                 last_request_failed |-> [m \in ClientMethods |-> FALSE],
                 now |-> 0, calls |-> 0, last |-> NoCall]
    /\ gen = NoCall /\ tail = NoCall /\ stream = NoCall /\ jobMetrics = NoCall
    /\ IdleA /\ IdleB /\ IdleD /\ IdleT /\ IdleX

UnchangedL == UNCHANGED <<mode, varsA, varsB, varsD, varsT, varsX,
                          gen, tail, stream, jobMetrics>>

\* Time passes.
ClockTick ==
    /\ mode = "L" /\ client.now < MaxNow
    /\ client' = [client EXCEPT !.now = @ + TickSeconds]
    /\ UnchangedL

\* One call of a cached method: _cached(key, ttl, fetch) returns the data of
\* a valid entry; otherwise it calls the fetcher, which issues a request,
\* and stores what is not None.  The list methods return `... or []`.
ClientCall(method, response) ==
    /\ mode = "L" /\ client.calls < MaxClientCalls
    /\ LET entry == client.cache[method]
           hit == ~IsNone(entry) /\ IsValid(entry[1], client.now)
           data == IF hit THEN Some(entry[1].data) ELSE Fetch(method, response)
       IN  client' = [client EXCEPT
                        !.cache[method] =
                            IF hit \/ IsNone(data) THEN @
                            ELSE Some([data |-> data[1],
                                       expires_at |-> client.now + TtlOf(method)]),
                        !.last_request_failed[method] =
                            IF hit THEN @ ELSE response = "failed",
                        !.calls = @ + 1,
                        !.last = [called |-> TRUE, method |-> method,
                                  requested |-> ~hit,
                                  after_failure |-> client.last_request_failed[method],
                                  entry_valid |-> hit,
                                  returned |-> data]]
    /\ UnchangedL

NextL ==
    \/ ClockTick
    \/ \E method \in ClientMethods, response \in Responses : ClientCall(method, response)

SpecL == InitL /\ [][NextL]_vars

(* ------------------------- the whole model ----------------------------- *)

Init == InitA \/ InitB \/ InitD \/ InitT \/ InitC \/ InitR \/ InitV \/ InitW \/ InitG
            \/ InitP \/ InitS \/ InitM \/ InitL

Next == NextA \/ NextB \/ NextD \/ NextT \/ CumulativeTokensCall \/ NextC \/ NextR \/ NextV \/ NextW \/ NextG
            \/ NextP \/ NextS \/ NextM \/ NextL

Spec == Init /\ [][Next]_vars

\* Both normalisers.
InitAB == InitA \/ InitB

NextAB == NextA \/ NextB

SpecAB == InitAB /\ [][NextAB]_vars

\* Both normalisers and the dispatcher.
InitParsers == InitA \/ InitB \/ InitD

NextParsers == NextA \/ NextB \/ NextD

SpecParsers == InitParsers /\ [][NextParsers]_vars

\* Both normalisers followed by the token statistics.
NextStats == NextAB \/ CumulativeTokensCall

SpecStats == InitAB /\ [][NextStats]_vars

(* ------------------------------ claims --------------------------------- *)

AddTokens(a, b) ==
    TokenInfo(a.input_tokens + b.input_tokens, a.output_tokens + b.output_tokens,
              a.cache_read + b.cache_read, a.cache_creation + b.cache_creation)

\* The per-counter sum of the tokens of the events that carry tokens.
RECURSIVE TokenSum(_)
TokenSum(events) ==
    IF events = <<>> THEN ZeroTokens
    ELSE AddTokens(IF IsNone(Head(events).tokens) THEN ZeroTokens ELSE Head(events).tokens[1],
                   TokenSum(Tail(events)))

\* The fields of an Event that resumability is stated over.
EventKey(e) == <<e.step, e.source, e.event_type, e.tool_name, e.tool_id, e.line_num, e.tokens>>
EventKeys(events) == [i \in 1..Len(events) |-> EventKey(events[i])]

\* An Event without its position in the file.
EventContent(e) ==
    <<e.step, e.source, e.event_type, e.tool_name, e.tool_id, e.tokens, e.summary, e.detail>>
EventContents(events) == [i \in 1..Len(events) |-> EventContent(events[i])]

AllReturned == Returned(first) /\ Returned(second) /\ Returned(full)

\* C1: the token sum of a parse of the first `split` lines plus that of a
\* parse resumed at after_line = split equals, counter by counter, the
\* token sum of one parse of the whole file, for every split point.
C1_SplitTokenSum ==
    (mode = "A" /\ AllReturned) =>
        AddTokens(TokenSum(first.events), TokenSum(second.events)) = TokenSum(full.events)

\* C2: the events of a parse of the first `split` lines followed by the
\* events of a parse resumed at after_line = split are, field by field,
\* the events of one parse of the whole file.
C2_SplitEventSequence ==
    (mode = "A" /\ AllReturned) =>
        EventKeys(first.events) \o EventKeys(second.events) = EventKeys(full.events)

MsgIds == {"m1", "m2"}

\* The lines (1-based) of logical call m.
LinesOf(m) == {i \in 1..Len(ccFile) : ccFile[i].kind = "assistant" /\ ccFile[i].id = m}

IsFragment(b) == b.type \in {"thinking", "text", "tool_use"}

\* The number of thinking, text and tool_use fragments of a line.
FragmentCount(line) == Len(SelectSeq(line.content, IsFragment))

\* The events of a result that carry tokens and stem from the lines in L.
TokenEvents(res, L) ==
    {j \in 1..Len(res.events) :
        ~IsNone(res.events[j].tokens) /\ (res.events[j].line_num + 1) \in L}

\* C3: in one parse, every message id that has at least one content
\* fragment, however its fragments are spread over its lines, has exactly
\* one Event carrying tokens, and that Event carries the input tokens the
\* call reported.
C3_OneTokenEventPerCall ==
    (mode = "A" /\ Returned(full)) =>
        \A m \in MsgIds :
            (\E i \in LinesOf(m) : FragmentCount(ccFile[i]) >= 1) =>
                /\ Cardinality(TokenEvents(full, LinesOf(m))) = 1
                /\ \A j \in TokenEvents(full, LinesOf(m)) :
                      \A i \in LinesOf(m) :
                          full.events[j].tokens[1].input_tokens = ccFile[i].usage.input_tokens

\* The lines of the logical call that line i belongs to: those of its
\* message id, or the line alone when it has none.
CallLines(i) == IF ccFile[i].id = "" THEN {i} ELSE LinesOf(ccFile[i].id)

\* C4: no usage is lost.  Format A: every assistant line with non-zero
\* usage has, among the events of a full parse, an Event of its logical
\* call that carries that usage.  Format B: every step with non-zero token
\* info has an Event that carries it.
C4_NoUsageLost ==
    /\ (mode = "A" /\ Returned(full)) =>
          \A i \in 1..Len(ccFile) :
              (ccFile[i].kind = "assistant" /\ ccFile[i].usage # ZeroTokens) =>
                  \E j \in TokenEvents(full, CallLines(i)) :
                      LET t == full.events[j].tokens[1]
                      IN  /\ t.input_tokens = ccFile[i].usage.input_tokens
                          /\ t.cache_read = ccFile[i].usage.cache_read
                          /\ t.cache_creation = ccFile[i].usage.cache_creation
                          /\ t.output_tokens >= ccFile[i].usage.output_tokens
    /\ (mode = "B" /\ Returned(fullB)) =>
          \A i \in 1..Len(doc) :
              StepTokenInfo(doc[i]) # ZeroTokens =>
                  \E j \in 1..Len(fullB.events) :
                      fullB.events[j].tokens = Some(StepTokenInfo(doc[i]))

\* A line that is no well-formed record: it does not decode, or decodes
\* to something that is not an object of the expected shape.
Malformed(line) == line.kind \in {"badjson", "scalar"} \/ line.strContent

MalformedLines == {i \in 1..Len(ccFile) : Malformed(ccFile[i])}

\* The file without its line i.
WithoutLine(lines, i) == SubSeq(lines, 1, i - 1) \o SubSeq(lines, i + 1, Len(lines))

\* C7: a parse of a transcript with one malformed line returns normally,
\* and its events are those of the transcript without that line.
C7_CorruptLineSkipped ==
    (mode = "A" /\ full.called /\ Cardinality(MalformedLines) = 1) =>
        /\ Returned(full)
        /\ \A i \in MalformedLines :
              EventContents(full.events)
                  = EventContents(ParseClaudeCodeJsonl(RegularFile(WithoutLine(ccFile, i)), 0).events)

StrictlyIncreasingSteps(res) ==
    \A i \in 1..(Len(res.events) - 1) : res.events[i].step < res.events[i + 1].step

StartsAtOrAfter(res, k) == res.events # <<>> => res.events[1].step >= k

\* C8: in every result a normaliser returns the steps are strictly
\* increasing, and the first Event of a call resumed at offset k has
\* step >= k.
C8_StepsIncreaseFromOffset ==
    /\ \A res \in {first, second, full, resB, fullB} :
          Returned(res) => StrictlyIncreasingSteps(res)
    /\ Returned(second) => StartsAtOrAfter(second, split)
    /\ Returned(resB) => StartsAtOrAfter(resB, offB)

\* A format-A call resumed past line 0 that returned several events.
C8_Witness ==
    /\ mode = "A" /\ Returned(second) /\ split >= 1
    /\ Len(second.events) >= 2

\* C5: a format-B parse resumed at offset k returns the events of the
\* single-shot parse from index k on, and total_lines is the event count
\* of the whole document whatever k.
C5_AtifResumeIsSuffix ==
    (mode = "B" /\ Returned(resB) /\ Returned(fullB)) =>
        /\ resB.events = Suffix(fullB.events, offB + 1)
        /\ resB.total_lines = Len(fullB.events)
        /\ fullB.total_lines = Len(fullB.events)

\* A resume strictly inside the event list.
C5_Witness ==
    /\ mode = "B" /\ Returned(resB) /\ Returned(fullB)
    /\ offB >= 1 /\ offB < Len(fullB.events)
    /\ Len(resB.events) >= 2

\* The events the single-shot parse returned for step i of the document.
StepEvents(i) ==
    LET lo == Len(AllEvents(SubSeq(doc, 1, i - 1), 1, <<>>))
        hi == Len(AllEvents(SubSeq(doc, 1, i), 1, <<>>))
    IN  SubSeq(fullB.events, lo + 1, hi)

\* Empty message, empty reasoning_content, empty tool_calls.
EmptyShape(step) ==
    /\ step.message.chars = 0 /\ step.reasoning.chars = 0
    /\ step.tool_calls = <<>>

\* The metrics map to a token count that is not zero.
NonZeroMetrics(step) == ExtractTokensFromMetrics(step.metrics) # ZeroTokens

IsPlaceholder(e, step) ==
    /\ e.summary.pre = "Model turn (no visible content)" /\ e.summary.len = 0
    /\ e.tokens = Some(StepTokenInfo(step))

ShownResults(step) == IF step.source = "agent" THEN Len(step.results) ELSE 0

FileTrouble(f) == ~f.exists \/ ~f.readable

\* What is in the files that can be read is well formed.
WellFormedDir(dir) ==
    /\ dir.traj.json # "scalar"
    /\ \A i \in 1..Len(dir.cc.lines) : ~Malformed(dir.cc.lines[i])

\* C6: detect_and_parse returns the converted-trace parse when a trace is
\* found and its parse has an event or total_lines > 0, else the
\* transcript parse when a transcript is found, else an empty result; and
\* with a missing or unreadable file in either position it returns a
\* result.
C6_DispatchNeverRaises ==
    (mode = "D" /\ resD.called) =>
        LET traj == ParseAtifTrajectory(jobDir.traj, offD)
            cc == ParseClaudeCodeJsonl(jobDir.cc, offD)
            expected ==
                IF jobDir.traj.exists /\ Returned(traj)
                   /\ (traj.events # <<>> \/ traj.total_lines > 0) THEN traj
                ELSE IF jobDir.cc.exists THEN cc
                ELSE EmptyResult
        IN  /\ Returned(resD) => resD = expected
            /\ ((FileTrouble(jobDir.traj) \/ FileTrouble(jobDir.cc)) /\ WellFormedDir(jobDir))
                  => Returned(resD)

\* C9: a bash-classified call with a command of 120 or more characters has
\* a summary of at most 120 characters after the "Bash: " prefix, and a
\* detail that is present and at most 500 characters long.
C9_LongCommandCaps ==
    (mode = "T" /\ Returned(toolOut) /\ toolOut.event_type = "bash"
        /\ ShellCommand(toolCall.input).len >= 120) =>
        /\ RenderedLen(toolOut.summary) <= 120 + Len("Bash: ")
        /\ toolOut.detail # None
        /\ toolOut.detail[1].len <= 500

NonDecreasing(entries, i) ==
    /\ entries[i].input_tokens <= entries[i + 1].input_tokens
    /\ entries[i].output_tokens <= entries[i + 1].output_tokens
    /\ entries[i].cache_read <= entries[i + 1].cache_read
    /\ entries[i].cache_creation <= entries[i + 1].cache_creation

\* C11: the entries compute_cumulative_tokens returns for the events of a
\* normaliser are non-decreasing in each of the four counters, and each
\* entry's total is the sum of its four counters.
C11_CumulativeMonotone ==
    cumulative.called =>
        /\ \A i \in 1..(Len(cumulative.entries) - 1) : NonDecreasing(cumulative.entries, i)
        /\ \A i \in 1..Len(cumulative.entries) :
              LET c == cumulative.entries[i]
              IN  c.total = c.input_tokens + c.output_tokens + c.cache_read + c.cache_creation

\* Statistics over events of which two carry tokens, the later one
\* reporting fewer input tokens than the earlier.
C11_Witness ==
    /\ cumulative.called /\ Len(cumulative.entries) >= 2
    /\ \E i, j \in 1..Len(cumulative.events) :
          /\ i < j
          /\ HasTokens(cumulative.events[i]) /\ HasTokens(cumulative.events[j])
          /\ cumulative.events[j].tokens[1].input_tokens
                < cumulative.events[i].tokens[1].input_tokens

\* The table keys found in the lower-cased model name.
KeysIn(model_norm) == {i \in 1..Len(Pricing) : Contains(model_norm, Pricing[i].key)}

\* C12: estimate_cost settles on a price row for every model string: the
\* row of the exact lower-cased key, else that of a longest table key
\* found in the name, else that of the family keyword, else the default.
C12_PriceRowResolution ==
    (mode = "C" /\ cost.called) =>
        LET norm == ModelNorm(cost.model)
            exact == {i \in 1..Len(Pricing) : Pricing[i].key = norm}
        IN  /\ ~cost.raised
            /\ IF exact # {} THEN \E i \in exact : cost.prices = Pricing[i].row
               ELSE IF KeysIn(norm) # {}
               THEN \E i \in KeysIn(norm) :
                       /\ \A j \in KeysIn(norm) : KeyLen(Pricing[j].key) <= KeyLen(Pricing[i].key)
                       /\ cost.prices = Pricing[i].row
               ELSE IF Contains(norm, <<"gemini">>) THEN cost.prices = Gemini3Row
               ELSE IF Contains(norm, <<"sonnet">>) THEN cost.prices = SonnetRow
               ELSE IF Contains(norm, <<"haiku">>) THEN cost.prices = HaikuRow
               ELSE cost.prices = OpusRow

\* A cost estimate for an unlisted model name of a known family.
C12_Witness ==
    /\ mode = "C" /\ cost.called
    /\ KeysIn(ModelNorm(cost.model)) = {}
    /\ Contains(ModelNorm(cost.model), <<"gemini">>)
    /\ cost.prices = Gemini3Row

\* C13: the four counters estimate_cost returns are the per-category sums
\* of the events' tokens and total_tokens is their sum; for the empty
\* list every counter and the estimated cost are zero.
C13_CostCounters ==
    (mode = "C" /\ cost.called) =>
        LET t == TokenSum(cost.events)
        IN  /\ cost.input_tokens = t.input_tokens
            /\ cost.output_tokens = t.output_tokens
            /\ cost.cache_read_tokens = t.cache_read
            /\ cost.cache_creation_tokens = t.cache_creation
            /\ cost.total_tokens = cost.input_tokens + cost.output_tokens
                                   + cost.cache_read_tokens + cost.cache_creation_tokens
            /\ cost.events = <<>> =>
                  /\ cost.total_tokens = 0 /\ cost.input_tokens = 0 /\ cost.output_tokens = 0
                  /\ cost.cache_read_tokens = 0 /\ cost.cache_creation_tokens = 0
                  /\ cost.estimated_cost_usd = 0

\* An estimate over two token-bearing events that costs something.
C13_Witness ==
    /\ mode = "C" /\ cost.called
    /\ Len(cost.events) = 2
    /\ HasTokens(cost.events[1]) /\ HasTokens(cost.events[2])
    /\ cost.events[1].tokens # cost.events[2].tokens
    /\ cost.estimated_cost_usd > 0

Categories ==
    {"bash", "file_read", "file_write", "paper_write", "plotting", "literature_review",
     "experiment", "pip_install", "git_clone", "submission", "web", "subagent",
     "task_mgmt", "other"}

\* The names the rules of _categorize_tool know, as written or lower-cased.
RuleNames ==
    {"Skill", "Bash", "Read", "Glob", "Grep", "Write", "Edit", "Task", "WebFetch",
     "WebSearch", "TodoWrite", "TaskOutput", "TaskStop"}

RuleLowerNames ==
    {"run_shell_command", "run_command", "execute_command", "bash", "read_file",
     "grep_search", "glob_search", "list_directory", "write_file", "edit_file",
     "update_file", "replace_in_file", "web_fetch", "web_search", "fetch_url",
     "google_search"}

\* C14: for every tool name and every input mapping _categorize_tool
\* returns one category of the fixed set, and "other" when the name matches
\* no rule.
C14_CategoryTotal ==
    (mode = "T" /\ toolOut.called) =>
        /\ Returned(toolOut)
        /\ toolOut.event_type \in Categories
        /\ (toolCall.name \notin RuleNames /\ Lower(toolCall.name) \notin RuleLowerNames)
              => toolOut.event_type = "other"

\* The text went through the sanitiser: nothing is left in it that the
\* sanitiser replaces.
Sanitized(r) == r.masked

CallIdsA ==
    UNION {{ccFile[i].content[j].id :
                j \in {n \in 1..Len(ccFile[i].content) : ccFile[i].content[n].type = "tool_use"}} :
           i \in {n \in 1..Len(ccFile) : ccFile[n].kind = "assistant"}}

CallIdsB ==
    UNION {{doc[i].tool_calls[j].tool_call_id : j \in 1..Len(doc[i].tool_calls)} :
           i \in {n \in 1..Len(doc) : doc[n].source = "agent"}}

\* The result with correlation id `id` has a tool_result Event in res, and
\* when a tool call of the source has that id, the Event of that call
\* carries the same tool_id.
Correlated(res, id, callIds) ==
    \E i \in 1..Len(res.events) :
        /\ res.events[i].event_type = "tool_result"
        /\ res.events[i].tool_id = Some(id)
        /\ id \in callIds =>
              \E j \in 1..Len(res.events) :
                  /\ ~IsNone(res.events[j].tool_name)
                  /\ res.events[j].tool_id = res.events[i].tool_id

AloneResult(kind, src, k) ==
    IF kind = "A" THEN ParseClaudeCodeJsonl(RegularFile(src), k)
    ELSE ParseAtifTrajectory(RegularDoc(src), k)

\* C17: a parse call returns what it returns when it runs alone, however
\* another call on the same source is interleaved with it, so two calls
\* with the same offset return equal results.
C17_CallsIndependent ==
    mode = "R" =>
        /\ \A c \in 1..2 :
              inflight.cs[c].pc = "done" =>
                  inflight.cs[c].result
                      = AloneResult(inflight.kind, inflight.src, inflight.cs[c].after_line)
        /\ (inflight.cs[1].pc = "done" /\ inflight.cs[2].pc = "done"
               /\ inflight.cs[1].after_line = inflight.cs[2].after_line)
              => inflight.cs[1].result = inflight.cs[2].result

\* Two interleaved calls with the same offset, both returned, on a
\* transcript in which one message id has two lines.
C17_Witness ==
    /\ mode = "R" /\ inflight.kind = "A" /\ inflight.overlap
    /\ inflight.cs[1].pc = "done" /\ inflight.cs[2].pc = "done"
    /\ inflight.cs[1].after_line = inflight.cs[2].after_line
    /\ Returned(inflight.cs[1].result)
    /\ \E i, j \in 1..Len(inflight.src) :
          i < j /\ inflight.src[i].id = "m1" /\ inflight.src[j].id = "m1"


\* A field of the body carries text of a part of the job's files that holds a
\* secret, and the text never went through the masker.
Leaks(v) ==
    \E f \in v.resp.body : ~f.masked /\ f.from \in v.secrets

\* C18: a secret held in a job's trajectory or submission files never appears
\* in the body of a response of any viewer endpoint, on a cold cache and on a
\* warm cache alike: every body went through the secret masker.
C18_NoSecretInResponse ==
    (mode = "V" /\ viewer.resp.sent) => ~Leaks(viewer)

\* C19: for a job id of the GitLab job map whose trajectory GitLab hosts, the
\* events endpoint answers 200 with a non-empty list of events and the model,
\* needing no local job directory; for an unknown id, and for a mapped job
\* without a hosted trajectory and without a local directory, it answers 404.
C19_GitLabEvents ==
    (mode = "V" /\ viewer.resp.sent /\ viewer.resp.endpoint = "events") =>
        /\ (viewer.gitlab /\ "trajectory" \in viewer.gl_files) =>
              /\ viewer.resp.status = 200
              /\ \E f \in viewer.resp.body : f.name = "events"
              /\ \E f \in viewer.resp.body : f.name = "model"
        /\ (~viewer.gitlab /\ ~viewer.local) => viewer.resp.status = 404
        /\ (viewer.gitlab /\ "trajectory" \notin viewer.gl_files /\ ~viewer.local) =>
              viewer.resp.status = 404


\* The position of the first occurrence of an entry in the log, 0 when absent.
FirstAt(log, what) ==
    IF \E i \in 1..Len(log) : log[i] = what
    THEN CHOOSE i \in 1..Len(log) : log[i] = what /\ \A j \in 1..(i - 1) : log[j] # what
    ELSE 0

\* C20: when the wrapped command has ended, the periodic sync loop was started
\* before the agent command ran, the loop was stopped after the agent ended and
\* runs no more, sync_artifacts ran at least once after the agent ended, and
\* the exit status is exactly the agent's.
C20_WrapperOrder ==
    (mode = "W" /\ wrapper.pc = "done") =>
        LET log == wrapper.log
        IN  /\ 0 < FirstAt(log, "loop_start")
            /\ FirstAt(log, "loop_start") < FirstAt(log, "agent_start")
            /\ FirstAt(log, "agent_start") < FirstAt(log, "agent_end")
            /\ FirstAt(log, "agent_end") < FirstAt(log, "loop_stop")
            /\ wrapper.loop = "stopped"
            /\ \A i \in 1..Len(log) : log[i] = "loop_sync" => i < FirstAt(log, "loop_stop")
            /\ \E i \in 1..Len(log) :
                  /\ log[i] \in {"final_sync", "exit_sync", "trap_sync"}
                  /\ i > FirstAt(log, "agent_end")
            /\ wrapper.exit = wrapper.status

\* The wrapper ended around an agent that failed, after the loop had synced
\* while the agent ran.
C20_Witness ==
    /\ mode = "W" /\ wrapper.pc = "done" /\ wrapper.status = 7 /\ wrapper.exit = 7
    /\ \E i \in 1..Len(wrapper.log) :
          /\ wrapper.log[i] = "loop_sync"
          /\ FirstAt(wrapper.log, "agent_start") < i
          /\ i < FirstAt(wrapper.log, "agent_end")


\* C21: generate_trajectory never starts the converter when trajectory.json
\* exists and is less than 60 seconds old, and returns that path; it returns
\* None when there is no agent directory; with the converter unavailable it
\* returns the existing path if the file exists and None otherwise.
C21_GenerateTrajectory ==
    (mode = "G") =>
        /\ (gen.existed /\ ~gen.mtime_fails /\ gen.age < 60) =>
              /\ ~gen.started
              /\ gen.pc = "done" => gen.result = Some("path")
        /\ (gen.pc = "done" /\ ~gen.agent_dir) => gen.result = None
        /\ (gen.pc = "done" /\ gen.agent_dir /\ ~gen.converter) =>
              /\ ~gen.started
              /\ gen.result = (IF gen.existed THEN Some("path") ELSE None)

\* A call returned the path of a 59 seconds old file with the converter at hand.
C21_Witness ==
    /\ mode = "G" /\ gen.pc = "done" /\ gen.existed /\ gen.age = 59
    /\ ~gen.mtime_fails /\ gen.converter /\ gen.result = Some("path")


\* The step's token info is not all zero (after the output estimate).
HasTokenInfo(step) == ~IsNone(TokenDict(StepTokenInfo(step)))

\* C22 as stated: for every step with non-zero token info that emits an Event,
\* the token info is attached to the first Event emitted for the step and to
\* no other, also when the step's only Events are tool results.
C22_TokensOnFirstEvent ==
    (mode = "B" /\ Returned(fullB)) =>
        \A i \in 1..Len(doc) :
            (HasTokenInfo(doc[i]) /\ StepEvents(i) # <<>>) =>
                LET evs == StepEvents(i)
                IN  /\ evs[1].tokens = Some(StepTokenInfo(doc[i]))
                    /\ \A j \in 2..Len(evs) : evs[j].tokens = None

\* C22 amended: the token info of such a step is attached to exactly one of
\* its Events, the first that is not a tool result (the fallback Event that
\* follows the tool results when the step emitted nothing else), and to no
\* other Event.
C22_TokensOnFirstNonResult ==
    (mode = "B" /\ Returned(fullB)) =>
        \A i \in 1..Len(doc) :
            HasTokenInfo(doc[i]) =>
                LET evs == StepEvents(i)
                IN  \E j \in 1..Len(evs) :
                        /\ evs[j].tokens = Some(StepTokenInfo(doc[i]))
                        /\ evs[j].event_type # "tool_result"
                        /\ \A k \in 1..(j - 1) : evs[k].event_type = "tool_result"
                        /\ \A k \in 1..Len(evs) : k # j => evs[k].tokens = None

\* A parsed document with a step that emitted only tool results and a step
\* that emitted several Events of its own.
C22_Witness ==
    /\ mode = "B" /\ Returned(fullB)
    /\ \E i \in 1..Len(doc) :
          /\ HasTokenInfo(doc[i]) /\ Len(StepEvents(i)) >= 2
          /\ StepEvents(i)[1].event_type = "tool_result"
    /\ \E i \in 1..Len(doc) :
          /\ HasTokenInfo(doc[i]) /\ Len(StepEvents(i)) >= 2
          /\ StepEvents(i)[1].event_type # "tool_result"
          /\ StepEvents(i)[2].event_type # "tool_result"


\* The characters of all content fragments of the lines in L.
RECURSIVE CallChars(_, _)
CallChars(L, i) ==
    IF i > Len(ccFile) THEN 0
    ELSE (IF i \in L THEN SumBlockChars(ccFile[i].content) ELSE 0) + CallChars(L, i + 1)

\* The characters of the visible content of a step.
StepContentChars(step) ==
    step.message.chars + step.reasoning.chars + ToolCallChars(step.tool_calls)

\* C23: the output-token count of the token-bearing Event of every logical
\* call is max(reported, estimated).  Format A: the estimate is taken over the
\* content of all fragments of the call on all of its lines, with or without
\* a message id.  Format B: for every step it is the visible content length
\* over the characters-per-token ratio plus the step's thoughts_tokens.
C23_OutputIsMaxOfReportedAndEstimate ==
    /\ (mode = "A" /\ Returned(full)) =>
          \A i \in 1..Len(ccFile) :
              ccFile[i].kind = "assistant" =>
                  \A j \in TokenEvents(full, CallLines(i)) :
                      full.events[j].tokens[1].output_tokens =
                          Max(ccFile[i].usage.output_tokens,
                              EstimateTokensFromChars(CallChars(CallLines(i), 1)))
    /\ (mode = "B" /\ Returned(fullB)) =>
          \A i \in 1..Len(doc) :
              \A j \in 1..Len(StepEvents(i)) :
                  ~IsNone(StepEvents(i)[j].tokens) =>
                      StepEvents(i)[j].tokens[1].output_tokens =
                          Max(ExtractTokensFromMetrics(doc[i].metrics).output_tokens,
                              EstimateTokensFromChars(StepContentChars(doc[i]))
                                  + doc[i].metrics.thoughts_tokens)


\* The token-bearing Events of step i of the parsed document.
StepTokenEvents(i) ==
    { j \in 1..Len(StepEvents(i)) : ~IsNone(StepEvents(i)[j].tokens) }

\* C24 as stated: for every metrics block without an explicit input_tokens
\* field the mapped input_tokens is prompt_tokens minus the cache-read count:
\* input_tokens + cache_read = prompt_tokens.
C24_InputPlusCacheReadIsPrompt ==
    (mode = "B" /\ Returned(fullB)) =>
        \A i \in 1..Len(doc) :
            IsNone(doc[i].metrics.input_tokens) =>
                \A j \in StepTokenEvents(i) :
                    LET t == StepEvents(i)[j].tokens[1]
                    IN  t.input_tokens + t.cache_read = doc[i].metrics.prompt_tokens

\* C24 amended: without an explicit input_tokens field, input_tokens is
\* prompt_tokens minus the cache-read count when the cache-read count does not
\* exceed prompt_tokens, and prompt_tokens itself when it does; the cache-read
\* count is cached_tokens or, when that is zero, extra.cache_read_input_tokens.
C24_UncachedInput ==
    (mode = "B" /\ Returned(fullB)) =>
        \A i \in 1..Len(doc) :
            IsNone(doc[i].metrics.input_tokens) =>
                \A j \in StepTokenEvents(i) :
                    LET t == StepEvents(i)[j].tokens[1]
                        m == doc[i].metrics
                        read == IF m.cached_tokens # 0 THEN m.cached_tokens
                                ELSE m.extra_cache_read
                    IN  /\ t.cache_read = read
                        /\ read <= m.prompt_tokens =>
                              t.input_tokens + t.cache_read = m.prompt_tokens
                        /\ read > m.prompt_tokens => t.input_tokens = m.prompt_tokens

\* A parsed document with a step whose cache reads are part of prompt_tokens
\* and a step whose cache reads exceed prompt_tokens.
C24_Witness ==
    /\ mode = "B" /\ Returned(fullB)
    /\ \E i \in 1..Len(doc) :
          /\ IsNone(doc[i].metrics.input_tokens) /\ StepTokenEvents(i) # {}
          /\ doc[i].metrics.cached_tokens > doc[i].metrics.prompt_tokens
    /\ \E i \in 1..Len(doc) :
          /\ IsNone(doc[i].metrics.input_tokens) /\ StepTokenEvents(i) # {}
          /\ doc[i].metrics.cached_tokens > 0
          /\ doc[i].metrics.cached_tokens < doc[i].metrics.prompt_tokens


\* The rules of a family in the order they are tried: the texts a rule looks
\* for and the category it gives.
ShellRuleOrder ==
    << <<{"submit_for_review", "extract_and_generate_questions"}, "submission">>,
       <<{"git clone"}, "git_clone">>,
       <<{"python experiment"}, "experiment">>,
       <<{"pip install", "uv pip install"}, "pip_install">>,
       <<{"compile_latex"}, "paper_write">>,
       <<{"matplotlib", "create_figures"}, "plotting">>,
       <<{"semantic_scholar", "openalex", "S2_API_KEY"}, "literature_review">> >>

WriteRuleOrder ==
    << <<{".tex", ".bib", "/latex/"}, "paper_write">>,
       <<{"/figures/"}, "plotting">> >>

\* The category of the first rule one of whose texts occurs, else the default.
FirstMatch(kws, rules, default) ==
    LET hits == {i \in 1..Len(rules) : rules[i][1] \cap kws # {}}
    IN  IF hits = {} THEN default
        ELSE rules[CHOOSE i \in hits : \A j \in hits : i <= j][2]

\* The tool families in the order they are tried, each with the names it
\* takes as written and lower-cased.
FamilyOrder ==
    << [family |-> "Skill", names |-> {"Skill"}, lnames |-> {}],
       [family |-> "shell", names |-> {"Bash"}, lnames |-> ShellNames],
       [family |-> "read", names |-> {"Read", "Glob", "Grep"},
        lnames |-> {"read_file", "grep_search", "glob_search", "list_directory"}],
       [family |-> "write", names |-> {"Write", "Edit"}, lnames |-> WriteNames],
       [family |-> "Task", names |-> {"Task"}, lnames |-> {}],
       [family |-> "web", names |-> {"WebFetch", "WebSearch"},
        lnames |-> {"web_fetch", "web_search", "fetch_url", "google_search"}],
       [family |-> "task_mgmt", names |-> {"TodoWrite", "TaskOutput", "TaskStop"},
        lnames |-> {}] >>

FamilyOf(name) ==
    LET hits == {i \in 1..Len(FamilyOrder) :
                    name \in FamilyOrder[i].names \/ Lower(name) \in FamilyOrder[i].lnames}
    IN  IF hits = {} THEN "other"
        ELSE FamilyOrder[CHOOSE i \in hits : \A j \in hits : i <= j].family

\* C25: classification follows one fixed rule order: the families are tried
\* in the order Skill, shell, read, write, Task, web, task management, other;
\* a shell command matching several rules gets the category of the first in
\* the order submission, git_clone, experiment, pip_install, paper_write,
\* plotting, literature_review, bash; a written path matching several rules
\* gets paper_write before plotting before file_write.
C25_RuleOrder ==
    (mode = "T" /\ Returned(toolOut)) =>
        LET fam == FamilyOf(toolCall.name)
            cat == toolOut.event_type
        IN  CASE fam = "Skill" -> cat \in {"literature_review", "other"}
              [] fam = "shell" ->
                    cat = FirstMatch(ShellCommand(toolCall.input).kw, ShellRuleOrder, "bash")
              [] fam = "read" -> cat = "file_read"
              [] fam = "write" ->
                    cat = FirstMatch(ToolPath(toolCall.input).kw, WriteRuleOrder, "file_write")
              [] fam = "Task" -> cat = "subagent"
              [] fam = "web" -> cat = "web"
              [] fam = "task_mgmt" -> cat = "task_mgmt"
              [] OTHER -> cat = "other"

\* A shell command matching the pip, latex and literature rules was classified.
C25_Witness ==
    /\ mode = "T" /\ Returned(toolOut) /\ toolCall.name = "Bash"
    /\ ShellCommand(toolCall.input).kw = {"pip install", "compile_latex", "openalex"}
    /\ toolOut.event_type = "pip_install"


\* C26: the summary the summariser renders for a tool call has a length
\* bounded by a fixed constant whatever the input: the text put into the
\* template never exceeds the largest of the templates' caps, also for a shell
\* call with a description, a glob pattern, a subagent description or an
\* unrecognised tool name.
C26_SummaryBounded ==
    (mode = "T" /\ Returned(toolOut)) =>
        toolOut.summary.len <= SummaryCmdCap


\* What one complete line yields when parsed alone.
EventsOfLine(l) == ParseLoop(<<l>>, 1, InitialLocals(0)).events

\* How often a line index occurs among the delivered events.
TimesDelivered(t, i) == Cardinality({k \in 1..Len(t.delivered) : t.delivered[k] = i})

\* C27: while a writer appends to the raw transcript, a poller that resumes
\* from the total_lines of the call that last returned events delivers the
\* events of every completed line exactly once: no completed line below the
\* resume offset is left undelivered, none is delivered twice.
C27_EveryCompletedLineDeliveredOnce ==
    (mode = "P" /\ tail.pc = "sleep") =>
        \A i \in 1..Len(tail.lines) :
            /\ (i - 1 < tail.last_line /\ EventsOfLine(tail.lines[i]) # <<>>)
                   => TimesDelivered(tail, i - 1) = Len(EventsOfLine(tail.lines[i]))
            /\ TimesDelivered(tail, i - 1) <= Len(EventsOfLine(tail.lines[i]))

\* C28: the polling loop delivers every event exactly once, also when the
\* format the dispatcher chooses changes between two polls: the events
\* delivered so far are the job's first events, each once and in order.
C28_EveryEventDeliveredOnce ==
    mode = "S" => \A k \in 1..Len(stream.delivered) : stream.delivered[k] = k - 1


\* C29: get_job_metrics returns cached metrics only if the file they were
\* parsed from is unchanged: a call that has answered from the cache has
\* answered with data parsed from the file detect_and_parse reads now, as it
\* is now.
C29_CachedOnlyIfFileUnchanged ==
    (mode = "M" /\ jobMetrics.last.called /\ jobMetrics.last.from_cache) =>
        jobMetrics.last.parsed_from = FileParsed(jobMetrics)

\* C30: GitLabClient never caches the outcome of a failed request: a call
\* of a cached method whose last request for the same key failed issues a
\* new request.
C30_FailureNotCached ==
    (mode = "L" /\ client.last.called /\ client.last.after_failure) =>
        client.last.requested
====
